---- MODULE Spec2Model ----
(***************************************************************************)
(* Grid-table text format of obsidian-grid-tables: the line grammar        *)
(* (SeparatorLine, ContentLine), the look-ahead scanner, the validator,    *)
(* the spec-to-model converter and the serializer of src/src/TableSerde.ts.*)
(*                                                                         *)
(* A JavaScript string is a sequence of one-character strings, so that     *)
(* <<"+", "-", "+">> is the line "+-+".  A call that may throw returns     *)
(* Returns(v) or Throws(message).                                          *)
(***************************************************************************)
EXTENDS Integers, Sequences, FiniteSets, TLC

VARIABLES
    pc,                  \* which step of the pipeline was taken last
    table,               \* TableContent given to the serializer
    baseSeparatorWidths, \* its second argument (Undefined or Some(widths))
    visualWidths,        \* its third argument (Undefined or Some(widths))
    text,                \* what tableContentToString returned for table
    lines,               \* the lines given to lookAheadForTableParts
    parts,               \* what lookAheadForTableParts returned for lines
    parsed,              \* what tryParseTableFromParsedParts returned for parts
    text2,               \* the parsed table serialized again
    sep,                 \* a SeparatorLine under test
    line,                \* a single line under test
    sepParsed,           \* what SeparatorLine.tryParse returned for line
    isValid,             \* what isValidTableSpec returned for parts
    converted,           \* what validSpecToTableContent returned for parts
    contentParsed,       \* what ContentLine.tryParseAccordingToSepLine returned
    sepArgs,             \* the arguments of new SeparatorLine(...)
    built,               \* what new SeparatorLine(...) returned or threw
    lastCall,            \* the last call on a TableContent or BiMap object
    keyToValue,          \* BiMap.keyToValue
    valueToKey,          \* BiMap.valueToKey
    otherSep,            \* the argument of SeparatorLine.equals
    equalResult,         \* what SeparatorLine.equals returned
    doc,                 \* tableField.update: the lines of the document
    potentialTables,     \* tableField.update: the candidate start lines
    cursor,              \* tableField.update: position in potentialTables
    scannedUpTo,         \* tableField.update: the skip mark
    decorations,         \* tableField.update: the ranges added to builder
    tried,               \* the lines the lookahead was started at
    adapter,             \* an ObsidianEditorAdapter object's fields
    plugin,              \* the plugin's registered children
    editors,             \* the editors created by mount
    controllers          \* the controllers created by mount

\* the variables of the serializer, scanner and separator pipelines
pipelineVars == <<pc, table, baseSeparatorWidths, visualWidths, text, lines,
                  parts, parsed, text2, sep, line, sepParsed>>
pipelineVarsButPc == <<table, baseSeparatorWidths, visualWidths, text, lines,
                       parts, parsed, text2, sep, line, sepParsed>>

\* the variables of the single-call and object specifications
callVars == <<isValid, converted, contentParsed, sepArgs, built, lastCall,
              keyToValue, valueToKey>>

\* the variables of the editor integration: separator comparison, the
\* decoration pass and the editor adapter
hostVars == <<otherSep, equalResult, doc, potentialTables, cursor, scannedUpTo,
              decorations, tried, adapter, plugin, editors, controllers>>

vars == <<pipelineVars, callVars, hostVars>>

(***************************************************************************)
(* Bounds of the explored inputs.                                          *)
(***************************************************************************)
MaxCellLen == 2     \* characters of one cell's content
MaxBase == 3        \* largest requested base separator width
MaxLines == 4       \* lines of an input text
MaxLineLen == 5     \* characters of a single line given to tryParse
MaxSepCols == 2     \* columns of a constructed SeparatorLine
MaxDash == 2        \* dashes of one column of a constructed SeparatorLine
MaxParts == 4       \* parts handed to the validator directly
MaxRows == 4        \* rows of a table that addRow is called on
MaxRowLen == 2      \* the length handed to addRow

(***************************************************************************)
(* JavaScript values and string primitives.                                *)
(***************************************************************************)
Returns(v) == [kind |-> "return", value |-> v]
Throws(message) == [kind |-> "throw", error |-> message]

\* null / undefined, and a value that is neither
Null == [null |-> TRUE]
Some(v) == [null |-> FALSE, v |-> v]
\* a null or undefined entry of a number array
NoHint == -1

NL == "\n"
\* the code units String.prototype.trimEnd takes off: WhiteSpace and
\* LineTerminator of ECMAScript.  A code unit that has no escape in a string
\* here is written by its code point.
Whitespace ==
    {"\t", NL, "U+000B", "\f", "\r", " ", "U+00A0", "U+1680",
     "U+2000", "U+2001", "U+2002", "U+2003", "U+2004", "U+2005", "U+2006",
     "U+2007", "U+2008", "U+2009", "U+200A", "U+2028", "U+2029", "U+202F",
     "U+205F", "U+3000", "U+FEFF"}
DigitSeq == <<"0", "1", "2", "3", "4", "5", "6", "7", "8", "9">>
Digits == {DigitSeq[i] : i \in 1..10}

\* line[i] with JavaScript's 0-based index; "undefined" past the end
charAt(s, i) == IF i >= 0 /\ i < Len(s) THEN s[i + 1] ELSE "undefined"

\* s.substring(from, to), 0-based, to exclusive, clamped to the string
substring(s, from, to) ==
    LET f == IF from > Len(s) THEN Len(s) ELSE from
        t == IF to > Len(s) THEN Len(s) ELSE to
    IN  IF t <= f THEN <<>> ELSE SubSeq(s, f + 1, t)

startsWith(s, c) == Len(s) > 0 /\ s[1] = c
endsWith(s, c) == Len(s) > 0 /\ s[Len(s)] = c

\* c.repeat(n)
repeat(c, n) == [i \in 1..n |-> c]

\* s.padEnd(n, c)
padEnd(s, n, c) == IF Len(s) >= n THEN s ELSE s \o repeat(c, n - Len(s))

RECURSIVE trimEnd(_)
trimEnd(s) ==
    IF s # <<>> /\ s[Len(s)] \in Whitespace
    THEN trimEnd(SubSeq(s, 1, Len(s) - 1))
    ELSE s

\* s.split(c): the pieces between the occurrences of the character c
RECURSIVE split(_, _)
split(s, c) ==
    IF \A i \in 1..Len(s) : s[i] # c
    THEN <<s>>
    ELSE LET k == CHOOSE i \in 1..Len(s) :
                      s[i] = c /\ \A j \in 1..(i - 1) : s[j] # c
         IN  <<SubSeq(s, 1, k - 1)>> \o split(SubSeq(s, k + 1, Len(s)), c)

\* strs.join(d)
RECURSIVE join(_, _)
join(strs, d) ==
    IF strs = <<>> THEN <<>>
    ELSE IF Len(strs) = 1 THEN strs[1]
    ELSE strs[1] \o d \o join(Tail(strs), d)

\* n.toString() of a non-negative integer
RECURSIVE numberToString(_)
numberToString(n) ==
    IF n < 10 THEN <<DigitSeq[n + 1]>>
    ELSE numberToString(n \div 10) \o <<DigitSeq[(n % 10) + 1]>>

\* parseInt(digits, 10) of a non-empty run of decimal digits
RECURSIVE parseInt(_)
parseInt(digits) ==
    LET d == CHOOSE v \in 0..9 : DigitSeq[v + 1] = digits[Len(digits)]
    IN  IF Len(digits) = 1 THEN d
        ELSE 10 * parseInt(SubSeq(digits, 1, Len(digits) - 1)) + d

\* Math.max(...numbers) of a non-empty sequence
max(numbers) ==
    CHOOSE m \in {numbers[i] : i \in DOMAIN numbers} :
        \A i \in DOMAIN numbers : numbers[i] <= m

(***************************************************************************)
(* TableData.ts                                                            *)
(***************************************************************************)
TableCell(content) == [content |-> content]
TableRow(cells) == [cells |-> cells]
TableContent(rows) == [kind |-> "TableContent", rows |-> rows]

\* Array(length).fill("").map((s) => new TableCell(s)), for a length >= 0
emptyCells(length) == [i \in 1..length |-> TableCell(<<>>)]

\* Variant of addRow: the default length is the last row's cell count.
TableContent_addRow_LastRow(this, length) ==
    IF length.null /\ Len(this.rows) = 0
    THEN [table |-> this,
          result |-> Throws("Length of row must be specified for an empty table!")]
    ELSE LET n == IF length.null THEN Len(this.rows[Len(this.rows)].cells)
                  ELSE length.v
         IN  [table |-> TableContent(Append(this.rows, TableRow(emptyCells(n)))),
              result |-> Returns(Null)]

\* this.addRow(length), length being Null when the argument is left out:
\* the table afterwards and the call's outcome
TableContent_addRow(this, length) ==
    IF length.null /\ Len(this.rows) = 0
    THEN [table |-> this,
          result |-> Throws("Length of row must be specified for an empty table!")]
    ELSE LET n == IF length.null THEN Len(this.rows[1].cells) ELSE length.v
         IN  [table |-> TableContent(Append(this.rows, TableRow(emptyCells(n)))),
              result |-> Returns(Null)]

(***************************************************************************)
(* SeparatorLine                                                           *)
(***************************************************************************)
FormatMismatchSeparator ==
    "Line doesn't match format! Should look like this: '+--+---+-+'!"
FormatMismatchContent ==
    "Line doesn't match format! Should be '| content1 | content2 |'"

\* Variant of the constructor: no check of the column count.
SeparatorLine_Unchecked(columnIndices, visual) ==
    Returns([kind |-> "SeparatorLine",
             columnLengths |-> columnIndices,
             visualWidths |-> visual])

\* new SeparatorLine(columnIndices, visualWidths)
SeparatorLine(columnIndices, visual) ==
    IF Len(columnIndices) < 1
    THEN Throws("columnIndices must not be empty!")
    ELSE Returns([kind |-> "SeparatorLine",
                  columnLengths |-> columnIndices,
                  visualWidths |-> visual])

isSeparatorLine(entry) == entry.kind = "SeparatorLine"

\* Variant of equals: the numbers are strung together without the comma
\* that Array.toString puts between them.
SeparatorLine_equals_NoComma(this, other) ==
    join([i \in DOMAIN this.columnLengths |->
              numberToString(this.columnLengths[i])], <<>>)
  = join([i \in DOMAIN other.columnLengths |->
              numberToString(other.columnLengths[i])], <<>>)

\* this.columnLengths.toString() === other.columnLengths.toString()
SeparatorLine_equals(this, other) ==
    join([i \in DOMAIN this.columnLengths |->
              numberToString(this.columnLengths[i])], <<",">>)
  = join([i \in DOMAIN other.columnLengths |->
              numberToString(other.columnLengths[i])], <<",">>)

SeparatorLine_toStringRepr(this) ==
    LET visual == this.visualWidths
        suffix(i) ==
            IF ~visual.null /\ i <= Len(visual.v) /\ visual.v[i] # NoHint
            THEN numberToString(visual.v[i])
            ELSE <<>>
        segments == [i \in DOMAIN this.columnLengths |->
                        repeat("-", this.columnLengths[i]) \o suffix(i)]
    IN  <<"+">> \o join(segments, <<"+">>) \o <<"+">>

\* Variant of tryParse: the earlier recognizer /^\+(-+\+)+$/, which knows no
\* visual-width digits (TableSerde.ts, lines 413-424).
SeparatorLine_tryParse_Legacy(ln) ==
    IF /\ Len(ln) >= 3
       /\ startsWith(ln, "+") /\ endsWith(ln, "+")
       /\ \A i \in DOMAIN ln : ln[i] \in {"+", "-"}
       /\ \A i \in 1..(Len(ln) - 1) : ~(ln[i] = "+" /\ ln[i + 1] = "+")
    THEN SeparatorLine([c \in 1..(Len(split(ln, "+")) - 2) |->
                           Len(split(ln, "+")[c + 1])], Null)
    ELSE Throws(FormatMismatchSeparator)

\* the inner loops of tryParse: the first index at or after i, below
\* line.length - 1, whose character is not in chars
RECURSIVE skipWhile(_, _, _)
skipWhile(ln, i, chars) ==
    IF i < Len(ln) - 1 /\ charAt(ln, i) \in chars
    THEN skipWhile(ln, i + 1, chars)
    ELSE i

\* the outer loop of tryParse from index i on
RECURSIVE tryParseSegments(_, _, _, _)
tryParseSegments(ln, i, columnLengths, visual) ==
    IF ~(i < Len(ln) - 1)
    THEN Returns([columnLengths |-> columnLengths, visualWidths |-> visual])
    ELSE LET afterDashes == skipWhile(ln, i, {"-"})
             dashCount == afterDashes - i
             afterDigits == skipWhile(ln, afterDashes, Digits)
             widthDigits == substring(ln, afterDashes, afterDigits)
         IN  IF dashCount = 0 THEN Throws(FormatMismatchSeparator)
             ELSE IF charAt(ln, afterDigits) # "+"
                  THEN Throws(FormatMismatchSeparator)
             ELSE tryParseSegments(ln, afterDigits + 1,
                      Append(columnLengths, dashCount),
                      Append(visual, IF Len(widthDigits) > 0
                                     THEN parseInt(widthDigits)
                                     ELSE NoHint))

\* Variant of tryParse: the columns without a digit run keep the null
\* entry instead of becoming 0.
SeparatorLine_tryParse_KeepsNull(ln) ==
    IF ~startsWith(ln, "+") \/ ~endsWith(ln, "+")
    THEN Throws(FormatMismatchSeparator)
    ELSE LET scanned == tryParseSegments(ln, 1, <<>>, <<>>)
         IN  IF scanned.kind = "throw" THEN scanned
             ELSE IF Len(scanned.value.columnLengths) = 0
                  THEN Throws(FormatMismatchSeparator)
             ELSE LET vw == scanned.value.visualWidths
                      hasVisual == \E i \in DOMAIN vw : vw[i] # NoHint
                  IN  SeparatorLine(scanned.value.columnLengths,
                                    IF hasVisual THEN Some(vw) ELSE Null)

SeparatorLine_tryParse(ln) ==
    IF ~startsWith(ln, "+") \/ ~endsWith(ln, "+")
    THEN Throws(FormatMismatchSeparator)
    ELSE LET scanned == tryParseSegments(ln, 1, <<>>, <<>>)
         IN  IF scanned.kind = "throw" THEN scanned
             ELSE IF Len(scanned.value.columnLengths) = 0
                  THEN Throws(FormatMismatchSeparator)
             ELSE LET vw == scanned.value.visualWidths
                      hasVisual == \E i \in DOMAIN vw : vw[i] # NoHint
                      visual == IF hasVisual
                                THEN Some([i \in DOMAIN vw |->
                                           IF vw[i] = NoHint THEN 0 ELSE vw[i]])
                                ELSE Null
                  IN  SeparatorLine(scanned.value.columnLengths, visual)

(***************************************************************************)
(* ContentLine                                                             *)
(***************************************************************************)
ContentLine(dataChunks) == [kind |-> "ContentLine", dataChunks |-> dataChunks]

isContentLine(entry) == entry.kind = "ContentLine"

ContentLine_toStringRepr(this) ==
    LET rendered == [i \in DOMAIN this.dataChunks |->
                        IF this.dataChunks[i] = <<>> THEN <<" ">>
                        ELSE <<" ">> \o this.dataChunks[i] \o <<" ">>]
    IN  <<"|">> \o join(rendered, <<"|">>) \o <<"|">>

\* the column loop of tryParseAccordingToSepLine from column k on; rest is
\* what is left of the line and chunks the fragments pushed so far
RECURSIVE parseColumns(_, _, _, _)
parseColumns(rest, columnLengths, k, chunks) ==
    IF k > Len(columnLengths)
    THEN IF Len(rest) # 0 THEN Throws(FormatMismatchContent)
         ELSE Returns(ContentLine(chunks))
    ELSE LET expectedLength == columnLengths[k] + 1
             part == substring(rest, 0, expectedLength)
             noBar == substring(part, 0, Len(part) - 1)
             noLead == IF charAt(noBar, 0) = " "
                       THEN substring(noBar, 1, Len(noBar)) ELSE noBar
             trimmed == IF charAt(noLead, Len(noLead) - 1) = " "
                        THEN substring(noLead, 0, Len(noLead) - 1) ELSE noLead
         IN  IF Len(part) # expectedLength THEN Throws(FormatMismatchContent)
             ELSE IF part[Len(part)] # "|"
                  THEN parseColumns(rest, columnLengths, k + 1, chunks)
             ELSE parseColumns(substring(rest, expectedLength, Len(rest)),
                               columnLengths, k + 1, Append(chunks, trimmed))

ContentLine_tryParseAccordingToSepLine(ln, sepLine) ==
    IF ~startsWith(ln, "|") THEN Throws(FormatMismatchContent)
    ELSE parseColumns(substring(ln, 1, Len(ln)), sepLine.columnLengths, 1, <<>>)

(***************************************************************************)
(* lookAheadForTableParts                                                  *)
(***************************************************************************)
\* Variant of the scanner's loop: a content line is tried under the most
\* recent separator instead of the first one.
RECURSIVE lookAheadLoop_LatestSeparator(_, _, _, _)
lookAheadLoop_LatestSeparator(lns, k, acc, initialSeparatorLine) ==
    IF k > Len(lns) THEN acc
    ELSE LET potentialSeparator == SeparatorLine_tryParse(lns[k])
         IN  IF potentialSeparator.kind = "return"
             THEN lookAheadLoop_LatestSeparator(lns, k + 1,
                      Append(acc, potentialSeparator.value),
                      Some(potentialSeparator.value))
             ELSE IF initialSeparatorLine.null THEN acc
             ELSE LET potentialContentLine ==
                          ContentLine_tryParseAccordingToSepLine(lns[k],
                              initialSeparatorLine.v)
                  IN  IF potentialContentLine.kind = "return"
                      THEN lookAheadLoop_LatestSeparator(lns, k + 1,
                               Append(acc, potentialContentLine.value),
                               initialSeparatorLine)
                      ELSE acc

\* Variant of the scanner's loop: lines before the first separator are
\* skipped instead of ending the scan.
RECURSIVE lookAheadLoop_SkipLeading(_, _, _, _)
lookAheadLoop_SkipLeading(lns, k, acc, initialSeparatorLine) ==
    IF k > Len(lns) THEN acc
    ELSE LET potentialSeparator == SeparatorLine_tryParse(lns[k])
         IN  IF initialSeparatorLine.null
             THEN IF potentialSeparator.kind = "throw"
                  THEN lookAheadLoop_SkipLeading(lns, k + 1, acc, Null)
                  ELSE lookAheadLoop_SkipLeading(lns, k + 1,
                           Append(acc, potentialSeparator.value),
                           Some(potentialSeparator.value))
             ELSE LET potentialContentLine ==
                          ContentLine_tryParseAccordingToSepLine(lns[k],
                              initialSeparatorLine.v)
                  IN  IF potentialSeparator.kind = "return"
                      THEN lookAheadLoop_SkipLeading(lns, k + 1,
                               Append(acc, potentialSeparator.value),
                               initialSeparatorLine)
                      ELSE IF potentialContentLine.kind = "return"
                      THEN lookAheadLoop_SkipLeading(lns, k + 1,
                               Append(acc, potentialContentLine.value),
                               initialSeparatorLine)
                      ELSE acc

\* the loop over the lines from line k on; acc is parts
RECURSIVE lookAheadLoop(_, _, _, _)
lookAheadLoop(lns, k, acc, initialSeparatorLine) ==
    IF k > Len(lns) THEN acc
    ELSE IF initialSeparatorLine.null
    THEN LET first == SeparatorLine_tryParse(lns[k])
         IN  IF first.kind = "throw" THEN acc
             ELSE lookAheadLoop(lns, k + 1, Append(acc, first.value),
                                Some(first.value))
    ELSE LET potentialSeparator == SeparatorLine_tryParse(lns[k])
             potentialContentLine ==
                 ContentLine_tryParseAccordingToSepLine(lns[k],
                                                        initialSeparatorLine.v)
         IN  IF potentialSeparator.kind = "return"
             THEN lookAheadLoop(lns, k + 1,
                                Append(acc, potentialSeparator.value),
                                initialSeparatorLine)
             ELSE IF potentialContentLine.kind = "return"
             THEN lookAheadLoop(lns, k + 1,
                                Append(acc, potentialContentLine.value),
                                initialSeparatorLine)
             ELSE acc

lookAheadForTableParts(lns) == lookAheadLoop(lns, 1, <<>>, Null)

(***************************************************************************)
(* isValidTableSpec                                                        *)
(***************************************************************************)
TypeError == "TypeError: Cannot read properties of undefined"

\* the column loop over one content line: the first column that decides
contentLineCheck(entry, expectedColumns) ==
    LET deciding == {c \in DOMAIN expectedColumns :
                        \/ c > Len(entry.dataChunks)
                        \/ Len(entry.dataChunks[c]) - expectedColumns[c] > 2}
        c0 == CHOOSE c \in deciding : \A d \in deciding : c <= d
    IN  IF deciding = {} THEN Returns(TRUE)
        ELSE IF c0 > Len(entry.dataChunks) THEN Throws(TypeError)
        ELSE Returns(FALSE)

\* the loop over parts[1..]; i is the 1-based position of the entry
RECURSIVE validLoop(_, _, _)
validLoop(prts, i, separatorOk) ==
    IF i > Len(prts) THEN Returns(TRUE)
    ELSE LET entry == prts[i]
         IN  IF isSeparatorLine(entry)
             THEN IF ~separatorOk THEN Returns(FALSE)
                  ELSE IF ~SeparatorLine_equals(entry, prts[1])
                       THEN Returns(FALSE)
                  ELSE validLoop(prts, i + 1, FALSE)
             ELSE LET chk == contentLineCheck(entry, prts[1].columnLengths)
                  IN  IF chk = Returns(TRUE)
                      THEN validLoop(prts, i + 1, TRUE)
                      ELSE chk

isValidTableSpec(prts) ==
    IF Len(prts) < 3 THEN Returns(FALSE)
    ELSE IF ~isSeparatorLine(prts[1]) THEN Returns(FALSE)
    ELSE IF ~isSeparatorLine(prts[Len(prts)]) THEN Returns(FALSE)
    ELSE validLoop(prts, 2, FALSE)

(***************************************************************************)
(* validSpecToTableContent and tryParseTableFromParsedParts                *)
(***************************************************************************)
\* the loop over the parts from part k on
RECURSIVE convertLoop(_, _, _, _, _)
convertLoop(prts, k, rows, newCellContents, isFirstSeparator) ==
    IF k > Len(prts) THEN Returns(TableContent(rows))
    ELSE LET entry == prts[k]
         IN  IF isSeparatorLine(entry)
             THEN LET cells == [i \in DOMAIN newCellContents |->
                                  TableCell(join(newCellContents[i], <<NL>>))]
                      flushed == IF ~isFirstSeparator
                                 THEN Append(rows, TableRow(cells))
                                 ELSE rows
                  IN  convertLoop(prts, k + 1, flushed,
                                  [i \in DOMAIN entry.columnLengths |-> <<>>],
                                  FALSE)
             ELSE IF Len(entry.dataChunks) > Len(newCellContents)
                  THEN Throws(TypeError)
             ELSE convertLoop(prts, k + 1, rows,
                      [i \in DOMAIN newCellContents |->
                          IF i <= Len(entry.dataChunks)
                          THEN Append(newCellContents[i],
                                      trimEnd(entry.dataChunks[i]))
                          ELSE newCellContents[i]],
                      isFirstSeparator)

validSpecToTableContent(prts) == convertLoop(prts, 1, <<>>, <<>>, TRUE)

TableFormatInvalid == "Table format is invalid!"

tryParseTableFromParsedParts(prts) ==
    LET valid == isValidTableSpec(prts)
    IN  IF valid.kind = "throw" THEN valid
        ELSE IF ~valid.value THEN Throws(TableFormatInvalid)
        ELSE validSpecToTableContent(prts)

(***************************************************************************)
(* tableContentToString                                                    *)
(***************************************************************************)
\* the inner loop of the first pass: one row's cells from column colIdx on
RECURSIVE widenByCells(_, _, _)
widenByCells(widths, cells, colIdx) ==
    IF colIdx > Len(cells) THEN widths
    ELSE LET pushed == IF Len(widths) < colIdx THEN Append(widths, 0)
                       ELSE widths
             cellLines == split(cells[colIdx].content, NL)
             maxLineLength == max([i \in DOMAIN cellLines |->
                                      Len(cellLines[i])])
         IN  widenByCells(IF maxLineLength > pushed[colIdx]
                          THEN [pushed EXCEPT ![colIdx] = maxLineLength]
                          ELSE pushed,
                          cells, colIdx + 1)

\* the first pass: colContentWidths after the rows from row r on
RECURSIVE widenByRows(_, _, _)
widenByRows(widths, rows, r) ==
    IF r > Len(rows) THEN widths
    ELSE widenByRows(widenByCells(widths, rows[r].cells, 1), rows, r + 1)

colContentWidthsOf(tbl) == widenByRows(<<>>, tbl.rows, 1)

\* Variant of the content-derived width: two characters of padding also for
\* a column without content.
contentDerivedWidth_AlwaysPadded(contentWidth) == contentWidth + 2

\* the content-derived width of a column
contentDerivedWidth(contentWidth) ==
    IF contentWidth = 0 THEN 1 ELSE contentWidth + 2

\* Variant of the width computation: a positive base width is used as given,
\* without the promotion to the content-derived minimum.
separatorWidthsOf_NoFloor(colContentWidths, base) ==
    IF ~base.null /\ Len(base.v) > 0
    THEN [colIdx \in DOMAIN colContentWidths |->
            LET sepWidth == IF colIdx <= Len(base.v) /\ base.v[colIdx] # NoHint
                            THEN base.v[colIdx] ELSE 0
            IN  IF sepWidth <= 0
                THEN contentDerivedWidth(colContentWidths[colIdx])
                ELSE sepWidth]
    ELSE [colIdx \in DOMAIN colContentWidths |->
            contentDerivedWidth(colContentWidths[colIdx])]

\* Variant of the width computation: the earlier serializer, which derives
\* the widths from the content alone (TableSerde.ts, lines 616-619).
separatorWidthsOf_ContentOnly(colContentWidths, base) ==
    [colIdx \in DOMAIN colContentWidths |->
        contentDerivedWidth(colContentWidths[colIdx])]

separatorWidthsOf(colContentWidths, base) ==
    IF ~base.null /\ Len(base.v) > 0
    THEN [colIdx \in DOMAIN colContentWidths |->
            LET contentWidth == colContentWidths[colIdx]
                sepWidth == IF colIdx <= Len(base.v) /\ base.v[colIdx] # NoHint
                            THEN base.v[colIdx] ELSE 0
                minRequired == contentDerivedWidth(contentWidth)
            IN  IF sepWidth <= 0 THEN contentDerivedWidth(contentWidth)
                ELSE IF sepWidth < minRequired THEN minRequired
                ELSE sepWidth]
    ELSE [colIdx \in DOMAIN colContentWidths |->
            contentDerivedWidth(colContentWidths[colIdx])]

paddingWidthsOf(separatorWidths) ==
    [i \in DOMAIN separatorWidths |->
        IF separatorWidths[i] <= 1 THEN 0 ELSE separatorWidths[i] - 2]

\* Variant of the content lines of one row: one content line per row, made
\* of the cells' first fragments.
rowContentLines_FirstLineOnly(row, paddingWidths) ==
    <<ContentLine([colIdx \in DOMAIN row.cells |->
          padEnd(split(row.cells[colIdx].content, NL)[1],
                 paddingWidths[colIdx], " ")])>>

\* the content lines of one row
rowContentLines(row, paddingWidths) ==
    LET rowLines == [c \in DOMAIN row.cells |-> split(row.cells[c].content, NL)]
        numRows == IF rowLines = <<>> THEN 0
                   ELSE max([c \in DOMAIN rowLines |-> Len(rowLines[c])])
    IN  [innerRowIdx \in 1..numRows |->
            ContentLine([colIdx \in DOMAIN rowLines |->
                LET part == IF innerRowIdx <= Len(rowLines[colIdx])
                            THEN rowLines[colIdx][innerRowIdx] ELSE <<>>
                IN  padEnd(part, paddingWidths[colIdx], " ")])]

\* the second pass: the parts of the rows from row r on
RECURSIVE rowParts(_, _, _, _)
rowParts(rows, r, separator, paddingWidths) ==
    IF r > Len(rows) THEN <<separator>>
    ELSE <<separator>> \o rowContentLines(rows[r], paddingWidths)
             \o rowParts(rows, r + 1, separator, paddingWidths)

toStringRepr(part) ==
    IF isSeparatorLine(part) THEN SeparatorLine_toStringRepr(part)
    ELSE ContentLine_toStringRepr(part)

tableContentToString(tbl, base, visualHints) ==
    LET colContentWidths == colContentWidthsOf(tbl)
        separatorWidths == separatorWidthsOf(colContentWidths, base)
        paddingWidths == paddingWidthsOf(separatorWidths)
        visual == IF ~visualHints.null /\ Len(visualHints.v) > 0
                  THEN visualHints ELSE Null
        separator == SeparatorLine(separatorWidths, visual)
    IN  IF separator.kind = "throw" THEN separator
        ELSE LET prts == rowParts(tbl.rows, 1, separator.value, paddingWidths)
             IN  Returns(join([i \in DOMAIN prts |-> toStringRepr(prts[i])],
                              <<NL>>))

(***************************************************************************)
(* BiMap                                                                   *)
(***************************************************************************)
\* A Map is the set of its <<key, value>> entries, one entry per key; the
\* insertion order, which only keys() and values() show, is left out.
mapGet(m, k) ==
    IF \E p \in m : p[1] = k
    THEN Some((CHOOSE p \in m : p[1] = k)[2])
    ELSE Null
mapDelete(m, k) == {p \in m : p[1] # k}
mapSet(m, k, v) == mapDelete(m, k) \cup {<<k, v>>}

\* if (value), value a number or undefined; if (key), key a string or
\* undefined
truthyNumber(x) == ~x.null /\ x.v # 0
truthyString(x) == ~x.null /\ x.v # ""

\* new BiMap()
BiMap == [keyToValue |-> {}, valueToKey |-> {}]

\* get(key), getByValue(value): Null stands for undefined
BiMap_get(this, key) == mapGet(this.keyToValue, key)
BiMap_getByValue(this, value) == mapGet(this.valueToKey, value)

\* delete(key): the maps afterwards and the returned boolean
BiMap_delete(this, key) ==
    LET value == mapGet(this.keyToValue, key)
    IN  IF truthyNumber(value)
        THEN [keyToValue |-> mapDelete(this.keyToValue, key),
              valueToKey |-> mapDelete(this.valueToKey, value.v),
              result |-> TRUE]
        ELSE [keyToValue |-> this.keyToValue,
              valueToKey |-> this.valueToKey,
              result |-> FALSE]

\* deleteByValue(value): the maps afterwards and the returned boolean
BiMap_deleteByValue(this, value) ==
    LET key == mapGet(this.valueToKey, value)
    IN  IF truthyString(key)
        THEN [keyToValue |-> mapDelete(this.keyToValue, key.v),
              valueToKey |-> mapDelete(this.valueToKey, value),
              result |-> TRUE]
        ELSE [keyToValue |-> this.keyToValue,
              valueToKey |-> this.valueToKey,
              result |-> FALSE]

\* set(key, value): the maps afterwards
BiMap_set(this, key, value) ==
    LET afterDelete == BiMap_delete(this, key)
        afterBoth == BiMap_deleteByValue(afterDelete, value)
    IN  [keyToValue |-> mapSet(afterBoth.keyToValue, key, value),
         valueToKey |-> mapSet(afterBoth.valueToKey, value, key)]

\* clear()
BiMap_clear(this) == [keyToValue |-> {}, valueToKey |-> {}]

(***************************************************************************)
(* Inputs                                                                  *)
(***************************************************************************)
StringsUpTo(alphabet, n) == UNION {[1..k -> alphabet] : k \in 0..n}

\* cell contents: a letter, a space and a line break
CellAlphabet == {"a", " ", NL}
CellContents == StringsUpTo(CellAlphabet, MaxCellLen)

\* rectangular tables of one cell, one row of two cells, two rows of one cell
TableShapes == {<<1, 1>>, <<1, 2>>, <<2, 1>>}
TablesOfShape(r, c) ==
    {TableContent([i \in 1..r |->
         TableRow([j \in 1..c |-> TableCell(m[i][j])])]) :
        m \in [1..r -> [1..c -> CellContents]]}
Tables == UNION {TablesOfShape(sh[1], sh[2]) : sh \in TableShapes}

\* base widths: absent, empty, or up to two entries (a missing entry is one
\* past the end of the sequence; 0 asks for the content-derived width)
BaseWidthLengths == 0..2
BaseWidthInputs ==
    {Null} \cup {Some(w) : w \in UNION {[1..k -> 0..MaxBase] :
                                          k \in BaseWidthLengths}}

\* single lines given to SeparatorLine.tryParse
LineAlphabet == {"+", "-", "7", "|"}
LineInputs == StringsUpTo(LineAlphabet, MaxLineLen)

\* separator lines built by the constructor; a hint is absent (NoHint) or a
\* number of one, two or three digits
VisualHints == {NoHint, 0, 7, 10}
SeparatorInputs ==
    UNION {{SeparatorLine(cl, vw).value :
               cl \in [1..k -> 0..MaxDash],
               vw \in {Null} \cup {Some(v) : v \in UNION {[1..j -> VisualHints] :
                                                           j \in 0..k}}} :
           k \in 1..MaxSepCols}

\* the lines input texts are made of: separators of five shapes, content
\* lines that fit some of them, and a line that is neither
LinePool ==
    { <<"+", "-", "+">>,
      <<"+", "-", "-", "+">>,
      <<"+", "-", "-", "-", "+">>,
      <<"+", "-", "+", "-", "+">>,
      <<"+", "-", "+", "-", "-", "+">>,
      <<"|", "a", "|">>,
      <<"|", " ", " ", "|">>,
      <<"|", " ", "a", " ", "|">>,
      <<"|", "a", "|", "a", "|">>,
      <<"a">> }
TextInputs == UNION {[1..k -> LinePool] : k \in 0..MaxLines}

(***************************************************************************)
(* The pipeline as the callers run it (main.ts, the test suite): serialize *)
(* a table, split the text on line breaks, scan, validate and convert.     *)
(***************************************************************************)
\* the variables a specification does not use keep this value
callVarsIdle ==
    /\ isValid = Null /\ converted = Null /\ contentParsed = Null
    /\ sepArgs = Null /\ built = Null /\ lastCall = Null
    /\ keyToValue = Null /\ valueToKey = Null

hostVarsIdle ==
    /\ otherSep = Null /\ equalResult = Null
    /\ doc = Null /\ potentialTables = Null /\ cursor = Null
    /\ scannedUpTo = Null /\ decorations = Null /\ tried = Null
    /\ adapter = Null /\ plugin = Null /\ editors = Null
    /\ controllers = Null

InitTable ==
    /\ pc = "table"
    /\ table \in Tables
    /\ baseSeparatorWidths \in BaseWidthInputs
    /\ visualWidths = Null
    /\ text = Null /\ lines = Null /\ parts = Null /\ parsed = Null
    /\ text2 = Null /\ sep = Null /\ line = Null /\ sepParsed = Null
    /\ callVarsIdle
    /\ hostVarsIdle

InitText ==
    /\ pc = "lines"
    /\ lines \in TextInputs
    /\ table = Null /\ baseSeparatorWidths = Null /\ visualWidths = Null
    /\ text = Null /\ parts = Null /\ parsed = Null
    /\ text2 = Null /\ sep = Null /\ line = Null /\ sepParsed = Null
    /\ callVarsIdle
    /\ hostVarsIdle

InitSeparator ==
    /\ pc = "sep"
    /\ sep \in SeparatorInputs
    /\ line = Null /\ sepParsed = Null
    /\ table = Null /\ baseSeparatorWidths = Null /\ visualWidths = Null
    /\ text = Null /\ lines = Null /\ parts = Null /\ parsed = Null
    /\ text2 = Null
    /\ callVarsIdle
    /\ hostVarsIdle

InitLine ==
    /\ pc = "line"
    /\ line \in LineInputs
    /\ sep = Null /\ sepParsed = Null
    /\ table = Null /\ baseSeparatorWidths = Null /\ visualWidths = Null
    /\ text = Null /\ lines = Null /\ parts = Null /\ parsed = Null
    /\ text2 = Null
    /\ callVarsIdle
    /\ hostVarsIdle

\* text = tableContentToString(table, baseSeparatorWidths, visualWidths);
\* lines = text.split("\n")
Serialize ==
    /\ pc = "table"
    /\ text' = tableContentToString(table, baseSeparatorWidths, visualWidths)
    /\ text'.kind = "return"
    /\ lines' = split(text'.value, NL)
    /\ pc' = "serialized"
    /\ UNCHANGED <<table, baseSeparatorWidths, visualWidths, parts, parsed,
                   text2, sep, line, sepParsed>>
    /\ UNCHANGED callVars
    /\ UNCHANGED hostVars

\* parts = lookAheadForTableParts(lines)
Scan ==
    /\ pc \in {"serialized", "lines"}
    /\ parts' = lookAheadForTableParts(lines)
    /\ pc' = "scanned"
    /\ UNCHANGED <<table, baseSeparatorWidths, visualWidths, text, lines,
                   parsed, text2, sep, line, sepParsed>>
    /\ UNCHANGED callVars
    /\ UNCHANGED hostVars

\* parsed = tryParseTableFromParsedParts(parts)
Parse ==
    /\ pc = "scanned"
    /\ parsed' = tryParseTableFromParsedParts(parts)
    /\ pc' = "parsed"
    /\ UNCHANGED <<table, baseSeparatorWidths, visualWidths, text, lines,
                   parts, text2, sep, line, sepParsed>>
    /\ UNCHANGED callVars
    /\ UNCHANGED hostVars

\* text2 = tableContentToString(parsed, baseSeparatorWidths)
SerializeAgain ==
    /\ pc = "parsed"
    /\ table # Null
    /\ parsed.kind = "return"
    /\ text2' = tableContentToString(parsed.value, baseSeparatorWidths, Null)
    /\ pc' = "reserialized"
    /\ UNCHANGED <<table, baseSeparatorWidths, visualWidths, text, lines,
                   parts, parsed, sep, line, sepParsed>>
    /\ UNCHANGED callVars
    /\ UNCHANGED hostVars

\* the table parsed from a text becomes the table to serialize, with the
\* first separator's column lengths as base widths
\* (part_002, "Roundtrip with base widths is stable")
AdoptParsed ==
    /\ pc = "parsed"
    /\ table = Null
    /\ parsed.kind = "return"
    /\ table' = parsed.value
    /\ baseSeparatorWidths' = Some(parts[1].columnLengths)
    /\ pc' = "table"
    /\ UNCHANGED <<visualWidths, text, lines, parts, parsed, text2, sep, line,
                   sepParsed>>
    /\ UNCHANGED callVars
    /\ UNCHANGED hostVars

\* line = sep.toStringRepr()
ToStringRepr ==
    /\ pc = "sep"
    /\ line' = SeparatorLine_toStringRepr(sep)
    /\ pc' = "line"
    /\ UNCHANGED <<table, baseSeparatorWidths, visualWidths, text, lines,
                   parts, parsed, text2, sep, sepParsed>>
    /\ UNCHANGED callVars
    /\ UNCHANGED hostVars

\* sepParsed = SeparatorLine.tryParse(line)
TryParse ==
    /\ pc = "line"
    /\ sepParsed' = SeparatorLine_tryParse(line)
    /\ pc' = "sepParsed"
    /\ UNCHANGED <<table, baseSeparatorWidths, visualWidths, text, lines,
                   parts, parsed, text2, sep, line>>
    /\ UNCHANGED callVars
    /\ UNCHANGED hostVars

\* serializer first: table -> text -> parts -> table -> text
NextSerde == Serialize \/ Scan \/ Parse \/ SerializeAgain
SpecSerde == InitTable /\ [][NextSerde]_vars

\* text first: lines -> parts -> table -> text -> parts -> table
NextText == Scan \/ Parse \/ AdoptParsed \/ Serialize
SpecText == InitText /\ [][NextText]_vars

\* single separator lines: built and rendered, or given as text, then parsed
NextSeparator == ToStringRepr \/ TryParse
SpecSeparator == (InitSeparator \/ InitLine) /\ [][NextSeparator]_vars

(***************************************************************************)
(* The validator and the converter called on parts directly, as the test   *)
(* suite calls them; the converter only after the validator said true.     *)
(***************************************************************************)
\* the parts the sequences are made of: separators of one and two columns,
\* with and without a visual hint, and content lines of one and two
\* fragments, short, padded and too long for a column of length 1
PartPool ==
    { SeparatorLine(<<1>>, Null).value,
      SeparatorLine(<<1>>, Some(<<7>>)).value,
      SeparatorLine(<<1, 2>>, Null).value,
      ContentLine(<< <<"a">> >>),
      ContentLine(<< <<" ", "a", " ">> >>),
      ContentLine(<< <<"a", "b", "c", "d">> >>),
      ContentLine(<< <<"a">>, <<"b">> >>) }
PartsInputs == UNION {[1..k -> PartPool] : k \in 0..MaxParts}

InitParts ==
    /\ pc = "parts"
    /\ parts \in PartsInputs
    /\ table = Null /\ baseSeparatorWidths = Null /\ visualWidths = Null
    /\ text = Null /\ lines = Null /\ parsed = Null
    /\ text2 = Null /\ sep = Null /\ line = Null /\ sepParsed = Null
    /\ callVarsIdle
    /\ hostVarsIdle

\* isValid = isValidTableSpec(parts)
Validate ==
    /\ pc = "parts"
    /\ isValid' = isValidTableSpec(parts)
    /\ pc' = "validated"
    /\ UNCHANGED <<table, baseSeparatorWidths, visualWidths, text, lines,
                   parts, parsed, text2, sep, line, sepParsed>>
    /\ UNCHANGED <<converted, contentParsed, sepArgs, built, lastCall,
                   keyToValue, valueToKey>>
    /\ UNCHANGED hostVars

\* converted = validSpecToTableContent(parts), parts being valid
Convert ==
    /\ pc = "validated"
    /\ isValid = Returns(TRUE)
    /\ converted' = validSpecToTableContent(parts)
    /\ pc' = "converted"
    /\ UNCHANGED <<table, baseSeparatorWidths, visualWidths, text, lines,
                   parts, parsed, text2, sep, line, sepParsed>>
    /\ UNCHANGED <<isValid, contentParsed, sepArgs, built, lastCall,
                   keyToValue, valueToKey>>
    /\ UNCHANGED hostVars

NextParts == Validate \/ Convert
SpecParts == InitParts /\ [][NextParts]_vars

(***************************************************************************)
(* The pipeline with visual widths, as flushDomToFile serializes a table   *)
(* whose columns were resized.                                             *)
(***************************************************************************)
\* visual-width sequences: none, shorter than, and as long as two columns
VisualWidthInputs == {Some(<<>>), Some(<<7>>), Some(<<0, 10>>)}
\* base widths next to them: none, smaller than, equal to and larger than
\* what the contents need
VisualBaseInputs == {Null, Some(<<0>>), Some(<<2>>), Some(<<3, 1>>)}

InitVisual ==
    /\ pc = "table"
    /\ table \in Tables
    /\ baseSeparatorWidths \in VisualBaseInputs
    /\ visualWidths \in VisualWidthInputs
    /\ text = Null /\ lines = Null /\ parts = Null /\ parsed = Null
    /\ text2 = Null /\ sep = Null /\ line = Null /\ sepParsed = Null
    /\ callVarsIdle
    /\ hostVarsIdle

NextVisual == Serialize \/ Scan \/ Parse
SpecVisual == InitVisual /\ [][NextVisual]_vars

(***************************************************************************)
(* ContentLine.tryParseAccordingToSepLine called on one line under one     *)
(* separator, as the scanner and the test suite call it.                   *)
(***************************************************************************)
\* candidate content lines: bars, a letter and a space
ContentAlphabet == {"|", "a", " "}
ContentLineInputs == StringsUpTo(ContentAlphabet, MaxLineLen)

\* the separators they are parsed under: built by the constructor, no hints
ContentSeparatorInputs ==
    UNION {{SeparatorLine(cl, Null).value : cl \in [1..k -> 0..MaxDash]} :
           k \in 1..MaxSepCols}

InitContent ==
    /\ pc = "content"
    /\ line \in ContentLineInputs
    /\ sep \in ContentSeparatorInputs
    /\ sepParsed = Null
    /\ table = Null /\ baseSeparatorWidths = Null /\ visualWidths = Null
    /\ text = Null /\ lines = Null /\ parts = Null /\ parsed = Null
    /\ text2 = Null
    /\ callVarsIdle
    /\ hostVarsIdle

\* contentParsed = ContentLine.tryParseAccordingToSepLine(line, sep)
TryParseContent ==
    /\ pc = "content"
    /\ contentParsed' = ContentLine_tryParseAccordingToSepLine(line, sep)
    /\ pc' = "contentParsed"
    /\ UNCHANGED <<table, baseSeparatorWidths, visualWidths, text, lines,
                   parts, parsed, text2, sep, line, sepParsed>>
    /\ UNCHANGED <<isValid, converted, sepArgs, built, lastCall,
                   keyToValue, valueToKey>>
    /\ UNCHANGED hostVars

NextContent == TryParseContent
SpecContent == InitContent /\ [][NextContent]_vars

(***************************************************************************)
(* new SeparatorLine(...) on arbitrary arguments; a separator that was     *)
(* built is then rendered and parsed back.                                 *)
(***************************************************************************)
\* the arguments of the constructor: column lengths, the empty sequence
\* included, and visual widths or none
ConstructorInputs ==
    {[columnIndices |-> cl, visualWidths |-> vw] :
        cl \in UNION {[1..k -> 0..MaxDash] : k \in 0..MaxSepCols},
        vw \in {Null} \cup {Some(v) : v \in UNION {[1..j -> VisualHints] :
                                                    j \in 0..MaxSepCols}}}

InitArgs ==
    /\ pc = "new"
    /\ sepArgs \in ConstructorInputs
    /\ built = Null
    /\ sep = Null /\ line = Null /\ sepParsed = Null
    /\ table = Null /\ baseSeparatorWidths = Null /\ visualWidths = Null
    /\ text = Null /\ lines = Null /\ parts = Null /\ parsed = Null
    /\ text2 = Null
    /\ isValid = Null /\ converted = Null /\ contentParsed = Null
    /\ lastCall = Null /\ keyToValue = Null /\ valueToKey = Null
    /\ hostVarsIdle

\* sep = new SeparatorLine(columnIndices, visualWidths); a throw leaves sep
\* unassigned
Construct ==
    /\ pc = "new"
    /\ built' = SeparatorLine(sepArgs.columnIndices, sepArgs.visualWidths)
    /\ IF built'.kind = "return"
       THEN sep' = built'.value /\ pc' = "sep"
       ELSE sep' = sep /\ pc' = "failed"
    /\ UNCHANGED <<table, baseSeparatorWidths, visualWidths, text, lines,
                   parts, parsed, text2, line, sepParsed>>
    /\ UNCHANGED <<isValid, converted, contentParsed, sepArgs, lastCall,
                   keyToValue, valueToKey>>
    /\ UNCHANGED hostVars

NextConstruct == Construct \/ ToStringRepr \/ TryParse
SpecConstruct == InitArgs /\ [][NextConstruct]_vars

(***************************************************************************)
(* A TableContent object that rows are added to.                           *)
(***************************************************************************)
\* the tables addRow is first called on: without rows, with a row of no,
\* one and two cells, and with rows of different cell counts
AddRowTables ==
    { TableContent(<<>>),
      TableContent(<<TableRow(<<>>)>>),
      TableContent(<<TableRow(<<TableCell(<<"a">>)>>)>>),
      TableContent(<<TableRow(<<TableCell(<<"a">>), TableCell(<<>>)>>)>>),
      TableContent(<<TableRow(<<TableCell(<<"a">>)>>),
                     TableRow(<<TableCell(<<>>), TableCell(<<"a">>)>>)>>) }

InitObject ==
    /\ pc = "object"
    /\ table \in AddRowTables
    /\ lastCall = Null
    /\ baseSeparatorWidths = Null /\ visualWidths = Null
    /\ text = Null /\ lines = Null /\ parts = Null /\ parsed = Null
    /\ text2 = Null /\ sep = Null /\ line = Null /\ sepParsed = Null
    /\ isValid = Null /\ converted = Null /\ contentParsed = Null
    /\ sepArgs = Null /\ built = Null
    /\ keyToValue = Null /\ valueToKey = Null
    /\ hostVarsIdle

\* table.addRow(length) with length an argument or left out
callAddRow(length) ==
    LET call == TableContent_addRow(table, length)
    IN  /\ pc = "object"
        /\ Len(table.rows) < MaxRows
        /\ table' = call.table
        /\ lastCall' = [op |-> "addRow", arg |-> length, before |-> table,
                        result |-> call.result]
        /\ UNCHANGED <<pc, baseSeparatorWidths, visualWidths, text, lines,
                       parts, parsed, text2, sep, line, sepParsed>>
        /\ UNCHANGED <<isValid, converted, contentParsed, sepArgs, built,
                       keyToValue, valueToKey>>
        /\ UNCHANGED hostVars

\* table.addRow()
AddRow == callAddRow(Null)

\* table.addRow(n)
AddRowOfLength == \E n \in 0..MaxRowLen : callAddRow(Some(n))

NextObject == AddRow \/ AddRowOfLength
SpecObject == InitObject /\ [][NextObject]_vars

(***************************************************************************)
(* A BiMap<string, number> object, as the test suite uses it.              *)
(***************************************************************************)
\* keys and values of the map's types, the empty string and 0 among them
BiMapKeys == {"", "a", "b"}
BiMapValues == {0, 1, 2}

\* the object's two maps
this == [keyToValue |-> keyToValue, valueToKey |-> valueToKey]

InitBiMap ==
    /\ pc = "bimap"
    /\ keyToValue = BiMap.keyToValue
    /\ valueToKey = BiMap.valueToKey
    /\ lastCall = Null
    /\ table = Null /\ baseSeparatorWidths = Null /\ visualWidths = Null
    /\ text = Null /\ lines = Null /\ parts = Null /\ parsed = Null
    /\ text2 = Null /\ sep = Null /\ line = Null /\ sepParsed = Null
    /\ isValid = Null /\ converted = Null /\ contentParsed = Null
    /\ sepArgs = Null /\ built = Null
    /\ hostVarsIdle

\* map.set(key, value)
Set ==
    \E key \in BiMapKeys, value \in BiMapValues :
        LET after == BiMap_set(this, key, value)
        IN  /\ pc = "bimap"
            /\ keyToValue' = after.keyToValue
            /\ valueToKey' = after.valueToKey
            /\ lastCall' = [op |-> "set", key |-> Some(key),
                            value |-> Some(value), before |-> this,
                            result |-> Null]
            /\ UNCHANGED pipelineVars
            /\ UNCHANGED <<isValid, converted, contentParsed, sepArgs, built>>
            /\ UNCHANGED hostVars

\* map.delete(key)
Delete ==
    \E key \in BiMapKeys :
        LET after == BiMap_delete(this, key)
        IN  /\ pc = "bimap"
            /\ keyToValue' = after.keyToValue
            /\ valueToKey' = after.valueToKey
            /\ lastCall' = [op |-> "delete", key |-> Some(key),
                            value |-> Null, before |-> this,
                            result |-> Some(after.result)]
            /\ UNCHANGED pipelineVars
            /\ UNCHANGED <<isValid, converted, contentParsed, sepArgs, built>>
            /\ UNCHANGED hostVars

\* map.deleteByValue(value)
DeleteByValue ==
    \E value \in BiMapValues :
        LET after == BiMap_deleteByValue(this, value)
        IN  /\ pc = "bimap"
            /\ keyToValue' = after.keyToValue
            /\ valueToKey' = after.valueToKey
            /\ lastCall' = [op |-> "deleteByValue", key |-> Null,
                            value |-> Some(value), before |-> this,
                            result |-> Some(after.result)]
            /\ UNCHANGED pipelineVars
            /\ UNCHANGED <<isValid, converted, contentParsed, sepArgs, built>>
            /\ UNCHANGED hostVars

\* map.clear()
Clear ==
    /\ pc = "bimap"
    /\ keyToValue' = BiMap_clear(this).keyToValue
    /\ valueToKey' = BiMap_clear(this).valueToKey
    /\ lastCall' = [op |-> "clear", key |-> Null, value |-> Null,
                    before |-> this, result |-> Null]
    /\ UNCHANGED pipelineVars
    /\ UNCHANGED <<isValid, converted, contentParsed, sepArgs, built>>
    /\ UNCHANGED hostVars

NextBiMap == Set \/ Delete \/ DeleteByValue \/ Clear
SpecBiMap == InitBiMap /\ [][NextBiMap]_vars

(***************************************************************************)
(* SeparatorLine.equals on two separators, as the validator compares each  *)
(* separator with the first one.                                           *)
(***************************************************************************)
\* column lengths of one and two digits, so that different sequences can
\* have the same digits
EqualsLengths == {1, 2, 11, 12}
EqualsInputs ==
    {SeparatorLine(cl, vw).value :
        cl \in UNION {[1..k -> EqualsLengths] : k \in 1..3},
        vw \in {Null, Some(<<7>>)}}

InitEquals ==
    /\ pc = "equals"
    /\ sep \in EqualsInputs
    /\ otherSep \in EqualsInputs
    /\ equalResult = Null
    /\ line = Null /\ sepParsed = Null
    /\ table = Null /\ baseSeparatorWidths = Null /\ visualWidths = Null
    /\ text = Null /\ lines = Null /\ parts = Null /\ parsed = Null
    /\ text2 = Null
    /\ callVarsIdle
    /\ doc = Null /\ potentialTables = Null /\ cursor = Null
    /\ scannedUpTo = Null /\ decorations = Null /\ tried = Null
    /\ adapter = Null /\ plugin = Null /\ editors = Null
    /\ controllers = Null

\* equalResult = sep.equals(otherSep)
Equals ==
    /\ pc = "equals"
    /\ equalResult' = SeparatorLine_equals(sep, otherSep)
    /\ pc' = "compared"
    /\ UNCHANGED <<table, baseSeparatorWidths, visualWidths, text, lines,
                   parts, parsed, text2, sep, line, sepParsed>>
    /\ UNCHANGED callVars
    /\ UNCHANGED <<otherSep, doc, potentialTables, cursor, scannedUpTo,
                   decorations, tried, adapter, plugin, editors, controllers>>

NextEquals == Equals
SpecEquals == InitEquals /\ [][NextEquals]_vars


(***************************************************************************)
(* tableField.update (main.ts): one pass of the decoration field over a    *)
(* document.  The first loop collects the lines that parse as separator    *)
(* lines; the second loop tries each of them as the start of a table.      *)
(***************************************************************************)
MaxDocBlocks == 4

\* const lines = [""]; lines.push(line) for every line of the document
linesArray(docLines) ==
    [i \in 0..Len(docLines) |-> IF i = 0 THEN <<>> ELSE docLines[i]]

\* accessIterator(whole, startIndex, maxIndex): whole(index) for
\* startIndex <= index < maxIndex
accessIterator(whole, startIndex, maxIndex) ==
    [i \in 1..(maxIndex - startIndex) |-> whole[startIndex + i - 1]]

\* the first loop: the indices of the lines SeparatorLine.tryParse accepts
RECURSIVE collectPotentialTables(_, _, _)
collectPotentialTables(docLines, index, acc) ==
    IF index > Len(docLines) THEN acc
    ELSE collectPotentialTables(
             docLines, index + 1,
             IF SeparatorLine_tryParse(docLines[index]).kind = "return"
             THEN Append(acc, index) ELSE acc)

\* tr.state.doc.line(n).from and .to: offsets in the document text, the
\* lines joined by one line break each
RECURSIVE lineFrom(_, _)
lineFrom(docLines, n) ==
    IF n <= 1 THEN 0
    ELSE lineFrom(docLines, n - 1) + Len(docLines[n - 1]) + 1
lineTo(docLines, n) == lineFrom(docLines, n) + Len(docLines[n])

\* what one start line comes to, given the parts the look-ahead collected
\* and what tryParseTableFromParsedParts made of them
stepOutcome(tableStartLine, skipMark, prts, tbl) ==
    IF tableStartLine <= skipMark
    THEN [outcome |-> "skipped", scannedUpTo |-> skipMark]
    ELSE IF tbl.kind = "throw"
    THEN [outcome |-> "failed", scannedUpTo |-> skipMark]
    ELSE [outcome |-> "accepted",
          scannedUpTo |-> tableStartLine + Len(prts) - 1,
          table |-> tbl.value,
          tableEndLine |-> tableStartLine + Len(prts) - 1,
          parts |-> prts]

\* table = tryParseTableFromParsedParts(parts), or the catch
parseStep(tableStartLine, skipMark, prts) ==
    stepOutcome(tableStartLine, skipMark, prts,
                tryParseTableFromParsedParts(prts))

\* Variant of the loop body: the skip mark is taken to stand at the line
\* before the start line, so that a start line that fails moves it there.
tableStep_AdvanceOnFailure(docLines, tableStartLine, skipMark) ==
    parseStep(tableStartLine, tableStartLine - 1,
              lookAheadForTableParts(
                  accessIterator(linesArray(docLines), tableStartLine,
                                 Len(docLines) + 1)))

\* the body of the second loop for one start line, up to the point where
\* the decoration is built
tableStep(docLines, tableStartLine, skipMark) ==
    parseStep(tableStartLine, skipMark,
              lookAheadForTableParts(
                  accessIterator(linesArray(docLines), tableStartLine,
                                 Len(docLines) + 1)))

\* what a document is put together from: single lines, and a whole table
DocBlockPool ==
    { << <<"+", "-", "+">>, <<"|", "a", "|">>, <<"+", "-", "+">> >>,
      << <<"+", "-", "+">> >>,
      << <<"+", "-", "-", "+">> >>,
      << <<"|", "a", "|">> >>,
      << <<"x">> >> }
\* the lines of the blocks, one block after the other
RECURSIVE concatBlocks(_, _)
concatBlocks(blocks, k) ==
    IF k > Len(blocks) THEN <<>>
    ELSE blocks[k] \o concatBlocks(blocks, k + 1)
DocInputs ==
    {concatBlocks(blocks, 1) :
        blocks \in UNION {[1..n -> DocBlockPool] : n \in 0..MaxDocBlocks}}
\* source mode; live preview of a file; live preview without a file
ModeInputs ==
    { [isSourceMode |-> TRUE, fileRef |-> TRUE],
      [isSourceMode |-> FALSE, fileRef |-> TRUE],
      [isSourceMode |-> FALSE, fileRef |-> FALSE] }

InitDecorate ==
    /\ pc = "doc"
    /\ \E d \in DocInputs, m \in ModeInputs :
          doc = [lines |-> d, isSourceMode |-> m.isSourceMode,
                 fileRef |-> m.fileRef]
    /\ potentialTables = Null /\ cursor = Null /\ scannedUpTo = Null
    /\ decorations = Null /\ tried = Null
    /\ otherSep = Null /\ equalResult = Null
    /\ adapter = Null /\ plugin = Null /\ editors = Null
    /\ controllers = Null
    /\ table = Null /\ baseSeparatorWidths = Null /\ visualWidths = Null
    /\ text = Null /\ lines = Null /\ parts = Null /\ parsed = Null
    /\ text2 = Null /\ sep = Null /\ line = Null /\ sepParsed = Null
    /\ callVarsIdle

\* the first loop of update
Collect ==
    /\ pc = "doc"
    /\ potentialTables' = collectPotentialTables(doc.lines, 1, <<>>)
    /\ cursor' = 1
    /\ scannedUpTo' = 0
    /\ decorations' = <<>>
    /\ tried' = {}
    /\ pc' = "scanning"
    /\ UNCHANGED pipelineVarsButPc
    /\ UNCHANGED callVars
    /\ UNCHANGED <<otherSep, equalResult, doc, adapter, plugin, editors,
                   controllers>>

\* the rest of an iteration whose start line is at or before the skip
\* mark: continue
skipStep(tableStartLine, step) ==
    /\ step.outcome = "skipped"
    /\ lastCall' = [op |-> "tableStep", start |-> tableStartLine,
                    before |-> scannedUpTo, outcome |-> step.outcome]
    /\ cursor' = cursor + 1
    /\ UNCHANGED <<pc, scannedUpTo, decorations, tried>>

\* the rest of an iteration whose start line is past the skip mark: on
\* failure continue, on success add the decoration and move the mark
decorateStep(tableStartLine, step) ==
    /\ step.outcome # "skipped"
    /\ tried' = tried \cup {tableStartLine}
    /\ lastCall' = [op |-> "tableStep", start |-> tableStartLine,
                    before |-> scannedUpTo, outcome |-> step.outcome]
    /\ IF step.outcome = "failed"
       THEN /\ cursor' = cursor + 1
            /\ scannedUpTo' = step.scannedUpTo
            /\ UNCHANGED <<pc, decorations>>
       ELSE IF ~doc.isSourceMode /\ ~doc.fileRef
       THEN \* throw new Error("No fileRef!")
            /\ pc' = "thrown"
            /\ UNCHANGED <<cursor, scannedUpTo, decorations>>
       ELSE /\ decorations' =
                Append(decorations,
                       [from |-> lineFrom(doc.lines, tableStartLine),
                        to |-> lineTo(doc.lines, step.tableEndLine),
                        tableStartLine |-> tableStartLine,
                        tableEndLine |-> step.tableEndLine,
                        widget |-> ~doc.isSourceMode])
            /\ scannedUpTo' = step.scannedUpTo
            /\ cursor' = cursor + 1
            /\ UNCHANGED pc

\* one iteration of the second loop at or before the skip mark
SkipCandidate ==
    /\ pc = "scanning"
    /\ cursor <= Len(potentialTables)
    /\ skipStep(potentialTables[cursor],
                tableStep(doc.lines, potentialTables[cursor], scannedUpTo))
    /\ UNCHANGED pipelineVarsButPc
    /\ UNCHANGED <<isValid, converted, contentParsed, sepArgs, built,
                   keyToValue, valueToKey>>
    /\ UNCHANGED <<otherSep, equalResult, doc, potentialTables, adapter,
                   plugin, editors, controllers>>

\* one iteration of the second loop past the skip mark
TryCandidate ==
    /\ pc = "scanning"
    /\ cursor <= Len(potentialTables)
    /\ decorateStep(potentialTables[cursor],
                    tableStep(doc.lines, potentialTables[cursor],
                              scannedUpTo))
    /\ UNCHANGED pipelineVarsButPc
    /\ UNCHANGED <<isValid, converted, contentParsed, sepArgs, built,
                   keyToValue, valueToKey>>
    /\ UNCHANGED <<otherSep, equalResult, doc, potentialTables, adapter,
                   plugin, editors, controllers>>

\* return builder.finish()
Finish ==
    /\ pc = "scanning"
    /\ cursor > Len(potentialTables)
    /\ pc' = "decorated"
    /\ UNCHANGED pipelineVarsButPc
    /\ UNCHANGED callVars
    /\ UNCHANGED hostVars

NextDecorate == Collect \/ SkipCandidate \/ TryCandidate \/ Finish
SpecDecorate == InitDecorate /\ [][NextDecorate]_vars


(***************************************************************************)
(* ObsidianEditorAdapter.  The adapter, the plugin's children and the      *)
(* editors and controllers that mount has created make up the state; an    *)
(* editor or controller is named by its place in the order of creation.    *)
(* The calls into the host application (the editor's constructor, addChild *)
(* and removeChild, set and focus of the editor) return normally.          *)
(***************************************************************************)
MaxMounts == 2

AlreadyMounted == "Already mounted!"
NotMounted == "Not mounted!"

\* the state after the constructor
ObsidianEditorAdapter ==
    [adapter |-> [activeController |-> Null, activeEditor |-> Null,
                  extraExtensionProvider |-> "default"],
     plugin |-> <<>>,
     editors |-> <<>>,
     controllers |-> <<>>]

\* getMarkdownController(obsidianApp, file, getEditor)
getMarkdownController(file) == [editMode |-> Null, file |-> file]

\* new TableCellEditor(app, element, controller)
TableCellEditor(controller) ==
    [onChange |-> Null, extraExtensionProvider |-> Null, content |-> Null,
     focused |-> FALSE, controller |-> controller]

\* Component.addChild and Component.removeChild of the plugin
addChild(children, child) == Append(children, child)
removeChild(children, child) ==
    IF \E i \in DOMAIN children : children[i] = child
    THEN LET n == CHOOSE i \in DOMAIN children :
                      /\ children[i] = child
                      /\ \A j \in 1..(i - 1) : children[j] # child
         IN  SubSeq(children, 1, n - 1)
                 \o SubSeq(children, n + 1, Len(children))
    ELSE children

\* Variant of mount without the check of the mount state.
ObsidianEditorAdapter_mount_Unguarded(host, file) ==
    LET controller == Len(host.controllers) + 1
        editor == Len(host.editors) + 1
        created == [TableCellEditor(controller) EXCEPT
                        !.extraExtensionProvider =
                            Some(host.adapter.extraExtensionProvider)]
    IN  [result |-> Returns(Null),
         state |->
             [adapter |-> [host.adapter EXCEPT
                               !.activeController = Some(controller),
                               !.activeEditor = Some(editor)],
              plugin |-> addChild(host.plugin, editor),
              editors |-> Append(host.editors, created),
              controllers |->
                  Append(host.controllers,
                         [getMarkdownController(file) EXCEPT
                              !.editMode = Some(editor)])]]

ObsidianEditorAdapter_mount(host, file) ==
    IF \/ ~host.adapter.activeController.null
       \/ ~host.adapter.activeEditor.null
    THEN [result |-> Throws(AlreadyMounted), state |-> host]
    ELSE LET controller == Len(host.controllers) + 1
             editor == Len(host.editors) + 1
             created == [TableCellEditor(controller) EXCEPT
                             !.extraExtensionProvider =
                                 Some(host.adapter.extraExtensionProvider)]
         IN  [result |-> Returns(Null),
              state |->
                  [adapter |-> [host.adapter EXCEPT
                                    !.activeController = Some(controller),
                                    !.activeEditor = Some(editor)],
                   plugin |-> addChild(host.plugin, editor),
                   editors |-> Append(host.editors, created),
                   controllers |->
                       Append(host.controllers,
                              [getMarkdownController(file) EXCEPT
                                   !.editMode = Some(editor)])]]

\* Variant of unmount that does not take the editor from the plugin.
ObsidianEditorAdapter_unmount_KeepsChild(host) ==
    IF host.adapter.activeEditor.null
    THEN [result |-> Returns(Null), state |-> host]
    ELSE [result |-> Returns(Null),
          state |->
              [host EXCEPT
                   !.adapter = [host.adapter EXCEPT
                                    !.activeEditor = Null,
                                    !.activeController = Null]]]

ObsidianEditorAdapter_unmount(host) ==
    IF host.adapter.activeEditor.null
    THEN [result |-> Returns(Null), state |-> host]
    ELSE [result |-> Returns(Null),
          state |->
              [host EXCEPT
                   !.plugin = removeChild(host.plugin,
                                          host.adapter.activeEditor.v),
                   !.adapter = [host.adapter EXCEPT
                                    !.activeEditor = Null,
                                    !.activeController = Null]]]

ObsidianEditorAdapter_setContent(host, content) ==
    IF host.adapter.activeEditor.null
    THEN [result |-> Throws(NotMounted), state |-> host]
    ELSE [result |-> Returns(Null),
          state |->
              [host EXCEPT
                   !.editors[host.adapter.activeEditor.v].content =
                       Some(content)]]

ObsidianEditorAdapter_setChangeHandler(host, onChange) ==
    IF host.adapter.activeEditor.null
    THEN [result |-> Throws(NotMounted), state |-> host]
    ELSE [result |-> Returns(Null),
          state |->
              [host EXCEPT
                   !.editors[host.adapter.activeEditor.v].onChange =
                       Some(onChange)]]

ObsidianEditorAdapter_focus(host) ==
    IF host.adapter.activeEditor.null
    THEN [result |-> Throws(NotMounted), state |-> host]
    ELSE [result |-> Returns(Null),
          state |->
              [host EXCEPT
                   !.editors[host.adapter.activeEditor.v].focused = TRUE]]

\* a mounted editor keeps the provider it was given at mount
ObsidianEditorAdapter_setExtraExtensionProvider(host, provider) ==
    [result |-> Returns(Null),
     state |-> [host EXCEPT !.adapter.extraExtensionProvider = provider]]

FileInputs == {"a.md"}
ContentInputs == {<<"x">>}
HandlerInputs == {"onChange"}
ProviderInputs == {"default", "provider"}

\* the adapter and what it acts on, as one value
hostState ==
    [adapter |-> adapter, plugin |-> plugin, editors |-> editors,
     controllers |-> controllers]

InitAdapter ==
    /\ pc = "adapter"
    /\ adapter = ObsidianEditorAdapter.adapter
    /\ plugin = ObsidianEditorAdapter.plugin
    /\ editors = ObsidianEditorAdapter.editors
    /\ controllers = ObsidianEditorAdapter.controllers
    /\ otherSep = Null /\ equalResult = Null
    /\ doc = Null /\ potentialTables = Null /\ cursor = Null
    /\ scannedUpTo = Null /\ decorations = Null /\ tried = Null
    /\ table = Null /\ baseSeparatorWidths = Null /\ visualWidths = Null
    /\ text = Null /\ lines = Null /\ parts = Null /\ parsed = Null
    /\ text2 = Null /\ sep = Null /\ line = Null /\ sepParsed = Null
    /\ callVarsIdle

\* what every call on the adapter does with the outcome of the operation
adapterCall(op, outcome) ==
    /\ pc = "adapter"
    /\ lastCall' = [op |-> op, before |-> hostState,
                    result |-> outcome.result]
    /\ adapter' = outcome.state.adapter
    /\ plugin' = outcome.state.plugin
    /\ editors' = outcome.state.editors
    /\ controllers' = outcome.state.controllers
    /\ UNCHANGED pipelineVars
    /\ UNCHANGED <<isValid, converted, contentParsed, sepArgs, built,
                   keyToValue, valueToKey>>
    /\ UNCHANGED <<otherSep, equalResult, doc, potentialTables, cursor,
                   scannedUpTo, decorations, tried>>

\* adapter.mount(element, file); at most MaxMounts editors are created
Mount ==
    /\ pc = "adapter"
    /\ \/ ~adapter.activeEditor.null
       \/ Len(editors) < MaxMounts
    /\ \E file \in FileInputs :
          adapterCall("mount", ObsidianEditorAdapter_mount(hostState, file))

Unmount ==
    adapterCall("unmount", ObsidianEditorAdapter_unmount(hostState))

SetContent ==
    \E content \in ContentInputs :
        adapterCall("setContent",
                    ObsidianEditorAdapter_setContent(hostState, content))

SetChangeHandler ==
    \E onChange \in HandlerInputs :
        adapterCall("setChangeHandler",
                    ObsidianEditorAdapter_setChangeHandler(hostState,
                                                           onChange))

Focus ==
    adapterCall("focus", ObsidianEditorAdapter_focus(hostState))

SetExtraExtensionProvider ==
    \E provider \in ProviderInputs :
        adapterCall("setExtraExtensionProvider",
                    ObsidianEditorAdapter_setExtraExtensionProvider(
                        hostState, provider))

NextAdapter ==
    \/ Mount \/ Unmount \/ SetContent \/ SetChangeHandler \/ Focus
    \/ SetExtraExtensionProvider
SpecAdapter == InitAdapter /\ [][NextAdapter]_vars


Init ==
    \/ InitTable \/ InitText \/ InitSeparator \/ InitLine \/ InitParts
    \/ InitVisual \/ InitContent \/ InitArgs \/ InitObject \/ InitBiMap
    \/ InitEquals \/ InitDecorate \/ InitAdapter
Next ==
    \/ NextSerde \/ NextText \/ NextSeparator \/ NextParts \/ NextVisual
    \/ NextContent \/ NextConstruct \/ NextObject \/ NextBiMap
    \/ NextEquals \/ NextDecorate \/ NextAdapter
Spec == Init /\ [][Next]_vars

(***************************************************************************)
(* What the claims speak of, read off the texts and tables themselves      *)
(* rather than off the serializer's or the parser's intermediate values.   *)
(***************************************************************************)
\* the separator lines of a text: its lines that start with "+"
separatorLinesOf(lns) ==
    {lns[i] : i \in {j \in DOMAIN lns : startsWith(lns[j], "+")}}

\* the dash count of column c of a separator line: the number of "-" between
\* the c-th and the (c+1)-th "+"
dashCount(ln, c) ==
    LET segment == split(ln, "+")[c + 1]
    IN  Cardinality({i \in DOMAIN segment : segment[i] = "-"})

columnsOf(ln) == Len(split(ln, "+")) - 2

\* the longest line of the cells of column c of a table
maxContentLineLength(tbl, c) ==
    LET lens == UNION {{Len(l) : l \in
                          {split(tbl.rows[r].cells[c].content, NL)[k] :
                              k \in DOMAIN split(tbl.rows[r].cells[c].content, NL)}} :
                       r \in DOMAIN tbl.rows}
    IN  CHOOSE m \in lens : \A n \in lens : n <= m

columnCount(tbl) == Len(tbl.rows[1].cells)

\* one segment of a separator line: dashes, then digits, then "+"
isSegment(s) ==
    /\ Len(s) >= 2
    /\ s[Len(s)] = "+"
    /\ \E d \in 1..(Len(s) - 1) :
          /\ \A i \in 1..d : s[i] = "-"
          /\ \A i \in (d + 1)..(Len(s) - 1) : s[i] \in Digits

\* one or more segments
RECURSIVE isSegments(_)
isSegments(s) ==
    \E k \in 1..Len(s) :
        /\ isSegment(SubSeq(s, 1, k))
        /\ (k = Len(s) \/ isSegments(SubSeq(s, k + 1, Len(s))))

\* the separator grammar: "+" and then one or more segments
matchesSeparatorGrammar(ln) ==
    /\ Len(ln) >= 1
    /\ ln[1] = "+"
    /\ isSegments(Tail(ln))

\* the dash counts of the segments of a line of the grammar
segmentDashCounts(ln) == [c \in 1..columnsOf(ln) |-> dashCount(ln, c)]

\* a line after the first is accepted by the scanner under the separator first
lineAccepted(ln, first) ==
    \/ SeparatorLine_tryParse(ln).kind = "return"
    \/ ContentLine_tryParseAccordingToSepLine(ln, first).kind = "return"

\* the part such a line stands for
partOfLine(ln, first) ==
    IF SeparatorLine_tryParse(ln).kind = "return"
    THEN SeparatorLine_tryParse(ln).value
    ELSE ContentLine_tryParseAccordingToSepLine(ln, first).value

\* the first k lines are a separator followed by accepted lines
prefixAccepted(lns, k) ==
    /\ k >= 1
    /\ k <= Len(lns)
    /\ SeparatorLine_tryParse(lns[1]).kind = "return"
    /\ \A j \in 2..k :
          lineAccepted(lns[j], SeparatorLine_tryParse(lns[1]).value)

longestAcceptedPrefix(lns) ==
    CHOOSE n \in 0..Len(lns) :
        /\ (n = 0 \/ prefixAccepted(lns, n))
        /\ \A k \in (n + 1)..Len(lns) : ~prefixAccepted(lns, k)

(***************************************************************************)
(* Claims                                                                  *)
(***************************************************************************)

\* C1: content fidelity.  Scanning and parsing the serializer's output
\* returns a table structurally equal to the table serialized.
C1_ContentFidelity ==
    pc = "parsed" => parsed = Returns(table)

\* C2: idempotence.  The serializer's output scans and parses to a table
\* whose serialization under the same base widths is the same text.
C2_Idempotence ==
    /\ pc = "parsed" => parsed.kind = "return"
    /\ pc = "reserialized" => text2 = text

\* C3: the serializer's output always parses.  The scanner returns one part
\* per output line and the parts are a valid table spec.
C3_OutputParses ==
    pc = "scanned" =>
        /\ Len(parts) = Len(lines)
        /\ isValidTableSpec(parts) = Returns(TRUE)

\* C4 as stated: every column's dash count in every separator of the output
\* is at least the column's maximum content line length + 2.
C4_WidthFloor ==
    pc = "serialized" =>
        \A ln \in separatorLinesOf(lines) :
            \A c \in 1..columnCount(table) :
                dashCount(ln, c) >= maxContentLineLength(table, c) + 2

\* C4 as amended: every column's dash count in every separator of the output
\* is at least the column's maximum content line length + 2 when the column
\* has a non-empty content line, and at least 1 when all its lines are empty.
C4_WidthFloorAmended ==
    pc = "serialized" =>
        /\ separatorLinesOf(lines) # {}
        /\ \A ln \in separatorLinesOf(lines) :
              /\ columnsOf(ln) = columnCount(table)
              /\ \A c \in 1..columnCount(table) :
                    IF maxContentLineLength(table, c) = 0
                    THEN dashCount(ln, c) >= 1
                    ELSE dashCount(ln, c) >= maxContentLineLength(table, c) + 2

\* C4's case: a base width smaller than a non-empty column needs was asked
\* for, and the text was produced.
C4_Witness ==
    /\ pc = "serialized"
    /\ ~baseSeparatorWidths.null
    /\ \E c \in 1..columnCount(table) :
          /\ c <= Len(baseSeparatorWidths.v)
          /\ baseSeparatorWidths.v[c] > 0
          /\ maxContentLineLength(table, c) > 0
          /\ baseSeparatorWidths.v[c] < maxContentLineLength(table, c) + 2

\* C5: a positive base width that is not smaller than the column's
\* content-derived minimum (1 for an empty column, content width + 2
\* otherwise) is the column's dash count in the output's separators.
C5_BaseWidthVerbatim ==
    (pc = "serialized" /\ ~baseSeparatorWidths.null) =>
        \A c \in 1..columnCount(table) :
            LET w == maxContentLineLength(table, c)
                minimum == IF w = 0 THEN 1 ELSE w + 2
            IN  (/\ c <= Len(baseSeparatorWidths.v)
                 /\ baseSeparatorWidths.v[c] > 0
                 /\ baseSeparatorWidths.v[c] >= minimum)
                => /\ separatorLinesOf(lines) # {}
                   /\ \A ln \in separatorLinesOf(lines) :
                         dashCount(ln, c) = baseSeparatorWidths.v[c]

\* C5's case: a base width strictly larger than the minimum of a column with
\* content was asked for, next to a column whose base width was too small.
C5_Witness ==
    /\ pc = "serialized"
    /\ ~baseSeparatorWidths.null
    /\ Len(baseSeparatorWidths.v) = 2
    /\ columnCount(table) = 2
    /\ maxContentLineLength(table, 1) = 0
    /\ baseSeparatorWidths.v[1] = 3
    /\ maxContentLineLength(table, 2) = 2
    /\ baseSeparatorWidths.v[2] = 1

\* C6: a text that scans and parses to a table T1 under a first separator with
\* column lengths W: T1 serialized with base widths W scans and parses to T1
\* again, under a first separator with column lengths W again.
C6_ReserializationStable ==
    (pc = "parsed" /\ table # Null) =>
        /\ parsed = Returns(table)
        /\ Len(parts) >= 1
        /\ parts[1].columnLengths = baseSeparatorWidths.v

\* C7: separator symmetry.  A SeparatorLine with positive column lengths is
\* parsed back from its text with the same column lengths.
C7_SeparatorSymmetry ==
    (/\ pc = "sepParsed"
     /\ sep # Null
     /\ \A c \in DOMAIN sep.columnLengths : sep.columnLengths[c] > 0)
    => /\ sepParsed.kind = "return"
       /\ sepParsed.value.columnLengths = sep.columnLengths

\* C7's case: a separator of two columns, the first with a two-digit hint and
\* the second with none, was rendered and parsed.
C7_Witness ==
    /\ pc = "sepParsed"
    /\ sep # Null
    /\ sep.columnLengths = <<2, 1>>
    /\ sep.visualWidths = Some(<<10, NoHint>>)
    /\ sepParsed.kind = "return"

\* C8: tryParse succeeds exactly on the lines of the separator grammar, with
\* the segments' dash counts as column lengths, and fails with the
\* format-mismatch error on every other line.
C8_TryParseGrammar ==
    pc = "sepParsed" =>
        IF matchesSeparatorGrammar(line)
        THEN /\ sepParsed.kind = "return"
             /\ sepParsed.value.columnLengths = segmentDashCounts(line)
        ELSE sepParsed = Throws(FormatMismatchSeparator)

\* C9: the scanner returns the parts of exactly the longest prefix of lines
\* made of a first separator and lines that parse as a separator or, failing
\* that, as a content line under the first separator.
C9_LongestPrefix ==
    pc = "scanned" =>
        LET n == longestAcceptedPrefix(lines)
        IN  /\ Len(parts) = n
            /\ \A i \in 1..n :
                  parts[i] = IF i = 1
                             THEN SeparatorLine_tryParse(lines[1]).value
                             ELSE partOfLine(lines[i],
                                     SeparatorLine_tryParse(lines[1]).value)

\* C9's case: a separator, a content line under it, a line that is neither,
\* and after it a line that would parse.
C9_Witness ==
    /\ pc = "scanned"
    /\ Len(lines) = 4
    /\ Len(parts) = 2
    /\ isContentLine(parts[2])
    /\ SeparatorLine_tryParse(lines[4]).kind = "return"

\* C10: when the first line is not a separator the scanner returns nothing,
\* whatever follows.
C10_FirstLineRequired ==
    (/\ pc = "scanned"
     /\ Len(lines) >= 1
     /\ SeparatorLine_tryParse(lines[1]).kind = "throw")
    => parts = <<>>

\* C10's case: the first line is not a separator and the lines after it are
\* a complete table.
C10_Witness ==
    /\ pc = "scanned"
    /\ Len(lines) = 4
    /\ SeparatorLine_tryParse(lines[1]).kind = "throw"
    /\ tryParseTableFromParsedParts(
           lookAheadForTableParts(Tail(lines))).kind = "return"
    /\ parts = <<>>

\* what claim C11 calls the shape and the agreement of valid parts
wellFormedParts(prts) ==
    /\ Len(prts) >= 3
    /\ isSeparatorLine(prts[1])
    /\ isSeparatorLine(prts[Len(prts)])
    /\ \A i \in 1..(Len(prts) - 1) :
          ~(isSeparatorLine(prts[i]) /\ isSeparatorLine(prts[i + 1]))
    /\ \A i \in DOMAIN prts :
          isSeparatorLine(prts[i])
              => prts[i].columnLengths = prts[1].columnLengths
    /\ \A i \in DOMAIN prts :
          isContentLine(prts[i])
              => \A c \in DOMAIN prts[1].columnLengths :
                    /\ c <= Len(prts[i].dataChunks)
                    /\ Len(prts[i].dataChunks[c])
                           <= prts[1].columnLengths[c] + 2

\* C11: isValidTableSpec(parts) returns true exactly when parts has the
\* shape sep (content+ sep)+, every separator has the first one's column
\* lengths and every fragment is at most its column's length + 2 long; for
\* every other sequence of parts it returns false.
C11_ValidatorDecides ==
    pc = "validated" => isValid = Returns(wellFormedParts(parts))

\* C12: for every sequence of lines, scanning and parsing either returns a
\* table or fails with the 'Table format is invalid!' error; the pipeline
\* raises no other kind of error.
C12_OnlyFormatInvalid ==
    pc = "parsed"
        => parsed.kind = "return" \/ parsed = Throws(TableFormatInvalid)

\* the parts and the table that the text serialized without visual widths
\* scans and parses to
plainParts(tbl, base) ==
    lookAheadForTableParts(split(tableContentToString(tbl, base, Null).value,
                                 NL))
plainParsed(tbl, base) == tryParseTableFromParsedParts(plainParts(tbl, base))

\* the structure of scanned parts: each part's kind, a separator's column
\* lengths, a content line's fragments
structureOf(prts) ==
    [i \in DOMAIN prts |->
        IF isSeparatorLine(prts[i])
        THEN <<"SeparatorLine", prts[i].columnLengths>>
        ELSE <<"ContentLine", prts[i].dataChunks>>]

\* C13: visual-width hints never affect parse structure: scanning and
\* parsing tableContentToString(T, W, V) yields separators with the same
\* column lengths, the same number of parts and the same table as scanning
\* and parsing tableContentToString(T, W).
C13_VisualHintsNeutral ==
    pc = "parsed" /\ table # Null
        => /\ Len(parts) = Len(plainParts(table, baseSeparatorWidths))
           /\ structureOf(parts)
                  = structureOf(plainParts(table, baseSeparatorWidths))
           /\ parsed = plainParsed(table, baseSeparatorWidths)

\* a two-column table serialized with the hints 0 and 10 was parsed, and its
\* separators carry the hints
C13_Witness ==
    /\ pc = "parsed"
    /\ visualWidths = Some(<<0, 10>>)
    /\ Len(table.rows[1].cells) = 2
    /\ parsed.kind = "return"
    /\ parts[1].visualWidths = Some(<<0, 10>>)

\* the digit run of column c of a separator line: what follows the dashes in
\* the c-th piece between "+" characters
digitRun(ln, c) ==
    LET segment == split(ln, "+")[c + 1]
    IN  substring(segment, dashCount(ln, c), Len(segment))

\* the visual widths claim C14 describes for a line of k columns, a column
\* without a digit run getting the entry absent
hintsOf(ln, k, absent) ==
    IF \A c \in 1..k : digitRun(ln, c) = <<>>
    THEN Null
    ELSE Some([c \in 1..k |-> IF digitRun(ln, c) = <<>> THEN absent
                              ELSE parseInt(digitRun(ln, c))])

\* C14 as stated: on a successful tryParse each column with a digit run gets
\* that number as its hint, each column without one gets the hint-absent
\* marker, and visualWidths is absent when no column carries a digit run.
C14_HintsDecoded ==
    pc = "sepParsed" /\ sepParsed.kind = "return"
        => sepParsed.value.visualWidths
               = hintsOf(line, Len(sepParsed.value.columnLengths), NoHint)

\* C14 amended: on a successful tryParse each column with a digit run gets
\* that number as its hint, each column without one gets the hint 0 when
\* some other column carries a digit run, and visualWidths is absent when no
\* column carries a digit run.
C14_HintsDecodedAmended ==
    pc = "sepParsed" /\ sepParsed.kind = "return"
        => sepParsed.value.visualWidths
               = hintsOf(line, Len(sepParsed.value.columnLengths), 0)

\* a line whose first column carries the digit run 7 and whose second
\* carries none was parsed
C14_Witness ==
    /\ pc = "sepParsed"
    /\ line = <<"+", "-", "7", "+", "-", "+">>
    /\ sepParsed.kind = "return"
    /\ sepParsed.value.visualWidths = Some(<<7, 0>>)

\* the position in prts of its n-th separator
separatorPosition(prts, n) ==
    CHOOSE i \in DOMAIN prts :
        /\ isSeparatorLine(prts[i])
        /\ Cardinality({j \in 1..i : isSeparatorLine(prts[j])}) = n

separatorCount(prts) ==
    Cardinality({i \in DOMAIN prts : isSeparatorLine(prts[i])})

\* s without its trailing whitespace, its leading whitespace kept
stripTrailing(s) ==
    LET keep == {i \in DOMAIN s : s[i] \notin Whitespace}
    IN  IF keep = {} THEN <<>>
        ELSE substring(s, 0, CHOOSE i \in keep : \A j \in keep : j <= i)

\* the row claim C15 describes for the content lines between the n-th and
\* the next separator
rowBetween(prts, n) ==
    LET a == separatorPosition(prts, n)
        b == separatorPosition(prts, n + 1)
    IN  TableRow([c \in DOMAIN prts[a].columnLengths |->
            TableCell(join([k \in 1..(b - a - 1) |->
                               stripTrailing(prts[a + k].dataChunks[c])],
                           <<NL>>))])

\* C15: validSpecToTableContent on a valid spec produces, for each pair of
\* consecutive separators, one row whose cell i is the newline-join of the
\* i-th fragments of the content lines between them, each stripped of
\* trailing whitespace only, in the order the content lines appear.
C15_ConvertedRows ==
    pc = "converted"
        => converted
             = Returns(TableContent([n \in 1..(separatorCount(parts) - 1) |->
                                        rowBetween(parts, n)]))

\* 1 + the sum over the columns of (L_i + 1)
RECURSIVE expectedLineLength(_)
expectedLineLength(columnLengths) ==
    IF columnLengths = <<>> THEN 1
    ELSE columnLengths[1] + 1 + expectedLineLength(Tail(columnLengths))

\* C16: ContentLine.tryParseAccordingToSepLine(line, sep) succeeds only if
\* line starts with '|' and has exactly 1 + sum of (L_i + 1) characters; a
\* line that does not start with '|', is too short or is too long fails
\* with the format-mismatch error.
C16_ContentLineLength ==
    pc = "contentParsed"
        => LET fits == /\ startsWith(line, "|")
                       /\ Len(line) = expectedLineLength(sep.columnLengths)
           IN  /\ contentParsed.kind = "return" => fits
               /\ ~fits => contentParsed = Throws(FormatMismatchContent)

\* no base widths: the argument is absent or an empty sequence
withoutBaseWidths == baseSeparatorWidths \in {Null, Some(<<>>)}

\* C17: without base widths (absent or empty), tableContentToString gives
\* each column a dash count of 1 when the column's maximum content line
\* length is 0 and of that maximum + 2 otherwise, the maximum taken over all
\* lines of all cells of the column.
C17_ContentDerivedWidths ==
    (pc = "serialized" /\ withoutBaseWidths) =>
        /\ separatorLinesOf(lines) # {}
        /\ \A ln \in separatorLinesOf(lines) :
              /\ columnsOf(ln) = columnCount(table)
              /\ \A c \in 1..columnCount(table) :
                    dashCount(ln, c)
                        = IF maxContentLineLength(table, c) = 0 THEN 1
                          ELSE maxContentLineLength(table, c) + 2

\* a table with an empty column next to a column whose longest line is not
\* its cell's first line was serialized with an empty base-width sequence
C17_Witness ==
    /\ pc = "serialized"
    /\ baseSeparatorWidths = Some(<<>>)
    /\ columnCount(table) = 2
    /\ maxContentLineLength(table, 1) = 0
    /\ table.rows[1].cells[2].content = <<NL, "a">>
    /\ lines[1] = <<"+", "-", "+", "-", "-", "-", "+">>

\* C18: constructing a SeparatorLine with an empty column-length sequence
\* fails with the 'columnIndices must not be empty!' error and yields no
\* separator; with any non-empty sequence construction succeeds.
C18_ConstructorRejectsEmpty ==
    built # Null =>
        IF sepArgs.columnIndices = <<>>
        THEN /\ built = Throws("columnIndices must not be empty!")
             /\ sep = Null
        ELSE /\ built.kind = "return"
             /\ built.value.columnLengths = sepArgs.columnIndices
             /\ built.value.visualWidths = sepArgs.visualWidths
             /\ sep = built.value

\* the constructor was called with no column lengths and visual widths
C18_Witness ==
    /\ pc = "failed"
    /\ sepArgs = [columnIndices |-> <<>>, visualWidths |-> Some(<<7>>)]
    /\ built.kind = "throw"

\* a row of n cells, each with empty content
emptyRow(n) == TableRow([i \in 1..n |-> TableCell(<<>>)])

\* C19: addRow() appends exactly one row whose cell count is the first
\* row's and whose cells are all empty, leaving the existing rows unchanged;
\* on a table with no rows it fails with an error and leaves the table
\* unchanged; addRow(n) appends one row of n empty cells.
C19_AddRow ==
    (lastCall # Null /\ lastCall.op = "addRow") =>
        LET before == lastCall.before
        IN  IF ~lastCall.arg.null
            THEN /\ lastCall.result.kind = "return"
                 /\ table.rows = Append(before.rows, emptyRow(lastCall.arg.v))
            ELSE IF before.rows = <<>>
            THEN /\ lastCall.result.kind = "throw"
                 /\ table = before
            ELSE /\ lastCall.result.kind = "return"
                 /\ table.rows
                      = Append(before.rows,
                               emptyRow(Len(before.rows[1].cells)))

\* addRow() was called on a table whose last row has another cell count than
\* its first one
C19_Witness ==
    /\ lastCall # Null
    /\ lastCall.op = "addRow"
    /\ lastCall.arg.null
    /\ Len(lastCall.before.rows) >= 2
    /\ Len(lastCall.before.rows[1].cells)
         # Len(lastCall.before.rows[Len(lastCall.before.rows)].cells)
    /\ Len(table.rows) = Len(lastCall.before.rows) + 1

\* addRow() was called on a table without rows
C19_WitnessEmpty ==
    /\ lastCall # Null
    /\ lastCall.op = "addRow"
    /\ lastCall.arg.null
    /\ lastCall.before.rows = <<>>
    /\ lastCall.result.kind = "throw"

\* C20: BiMap.set(k, v) overrides in both directions: afterwards get(k) = v
\* and getByValue(v) = k, the value that k mapped to before (if different
\* from v) maps back to no key, and the key that mapped to v before (if
\* different from k) maps to no value; for every key and value of the map's
\* types, the empty string and 0 included.
C20_SetOverrides ==
    (lastCall # Null /\ lastCall.op = "set") =>
        LET k == lastCall.key.v
            v == lastCall.value.v
            oldValue == BiMap_get(lastCall.before, k)
            oldKey == BiMap_getByValue(lastCall.before, v)
        IN  /\ BiMap_get(this, k) = Some(v)
            /\ BiMap_getByValue(this, v) = Some(k)
            /\ (~oldValue.null /\ oldValue.v # v)
                   => BiMap_getByValue(this, oldValue.v) = Null
            /\ (~oldKey.null /\ oldKey.v # k)
                   => BiMap_get(this, oldKey.v) = Null

\* C21: BiMap.delete(k) returns true and removes k's pair from both
\* directions exactly when k is present; when k is absent it returns false
\* and leaves every pair unchanged. BiMap.deleteByValue(v) behaves
\* symmetrically for values.
C21_DeleteFrame ==
    /\ (lastCall # Null /\ lastCall.op = "delete") =>
          LET k == lastCall.key.v
              old == BiMap_get(lastCall.before, k)
          IN  IF ~old.null
              THEN /\ lastCall.result = Some(TRUE)
                   /\ keyToValue = lastCall.before.keyToValue \ {<<k, old.v>>}
                   /\ valueToKey = lastCall.before.valueToKey \ {<<old.v, k>>}
              ELSE /\ lastCall.result = Some(FALSE)
                   /\ this = lastCall.before
    /\ (lastCall # Null /\ lastCall.op = "deleteByValue") =>
          LET v == lastCall.value.v
              old == BiMap_getByValue(lastCall.before, v)
          IN  IF ~old.null
              THEN /\ lastCall.result = Some(TRUE)
                   /\ valueToKey = lastCall.before.valueToKey \ {<<v, old.v>>}
                   /\ keyToValue = lastCall.before.keyToValue \ {<<old.v, v>>}
              ELSE /\ lastCall.result = Some(FALSE)
                   /\ this = lastCall.before

\* C28: after any sequence of set, delete, deleteByValue and clear calls the
\* two maps are inverse of each other: get(k) = v if and only if
\* getByValue(v) = k, for every key and value, and both maps hold the same
\* number of entries.
C28_MapsInverse ==
    pc = "bimap" =>
        /\ \A k \in BiMapKeys, v \in BiMapValues :
              (BiMap_get(this, k) = Some(v))
                  <=> (BiMap_getByValue(this, v) = Some(k))
        /\ Cardinality(keyToValue) = Cardinality(valueToKey)

\* C22: every ContentLine returned by tryParseAccordingToSepLine(line, sep)
\* has exactly one data chunk per column of sep.
C22_OneChunkPerColumn ==
    (pc = "contentParsed" /\ contentParsed.kind = "return")
        => Len(contentParsed.value.dataChunks) = Len(sep.columnLengths)

\* the 0-based position in the line of the first character of column i
RECURSIVE columnOffset(_, _)
columnOffset(columnLengths, i) ==
    IF i = 1 THEN 1
    ELSE columnOffset(columnLengths, i - 1) + columnLengths[i - 1] + 1

\* s without one leading space and then without one trailing space
stripOneSpaceEachSide(s) ==
    LET noLead == IF Len(s) > 0 /\ s[1] = " " THEN Tail(s) ELSE s
    IN  IF Len(noLead) > 0 /\ noLead[Len(noLead)] = " "
        THEN SubSeq(noLead, 1, Len(noLead) - 1)
        ELSE noLead

\* C23: on a successful tryParseAccordingToSepLine the chunk of column i is
\* the L_i characters that precede that column's '|' with at most one
\* leading and at most one trailing space removed; further spaces and all
\* interior characters are preserved.
C23_ChunkOfColumn ==
    (pc = "contentParsed" /\ contentParsed.kind = "return") =>
        \A i \in DOMAIN sep.columnLengths :
            LET from == columnOffset(sep.columnLengths, i)
                span == SubSeq(line, from + 1, from + sep.columnLengths[i])
            IN  /\ i <= Len(contentParsed.value.dataChunks)
                /\ contentParsed.value.dataChunks[i]
                       = stripOneSpaceEachSide(span)

\* C24: for every valid spec validSpecToTableContent returns a table whose
\* row count is the number of separator parts minus 1, each row with as
\* many cells as the separator that opens it has columns.
C24_RowAndCellCounts ==
    pc = "converted" =>
        /\ converted.kind = "return"
        /\ Len(converted.value.rows) = separatorCount(parts) - 1
        /\ \A n \in DOMAIN converted.value.rows :
              Len(converted.value.rows[n].cells)
                  = Len(parts[separatorPosition(parts, n)].columnLengths)

\* the number of newline-separated fragments of a cell, and the largest
\* such number among the cells of row r
fragmentCount(cell) == Len(split(cell.content, NL))
contentLineCount(tbl, r) ==
    LET counts == {fragmentCount(tbl.rows[r].cells[c]) :
                      c \in DOMAIN tbl.rows[r].cells}
    IN  CHOOSE m \in counts : \A n \in counts : n <= m

\* the position among the output's lines of the separator before row r,
\* r = number of rows + 1 giving the separator after the last row
RECURSIVE separatorLineIndex(_, _)
separatorLineIndex(tbl, r) ==
    IF r = 1 THEN 1
    ELSE separatorLineIndex(tbl, r - 1) + contentLineCount(tbl, r - 1) + 1

isBlank(s) == \A i \in DOMAIN s : s[i] = " "

\* C25: for a table with R rows tableContentToString emits exactly R + 1
\* separator lines, all textually identical, one before each row and one
\* after the last row, and between the separators of row r exactly as many
\* content lines as the largest number of fragments among row r's cells; a
\* cell with fewer fragments contributes blank padding on the extra lines.
C25_LineLayout ==
    pc = "serialized" =>
        LET R == Len(table.rows)
        IN  /\ Len(lines) = separatorLineIndex(table, R + 1)
            /\ Cardinality({i \in DOMAIN lines : startsWith(lines[i], "+")})
                   = R + 1
            /\ \A r \in 1..(R + 1) :
                  /\ startsWith(lines[separatorLineIndex(table, r)], "+")
                  /\ lines[separatorLineIndex(table, r)] = lines[1]
            /\ \A r \in 1..R :
                  \A k \in 1..contentLineCount(table, r) :
                      LET ln == lines[separatorLineIndex(table, r) + k]
                      IN  /\ startsWith(ln, "|")
                          /\ Len(split(ln, "|")) = columnCount(table) + 2
                          /\ \A c \in DOMAIN table.rows[r].cells :
                                k > fragmentCount(table.rows[r].cells[c])
                                    => isBlank(split(ln, "|")[c + 1])

\* a table was serialized whose row has a cell of two fragments next to a
\* cell of one: two content lines between two separators
C25_Witness ==
    /\ pc = "serialized"
    /\ Len(table.rows) = 1
    /\ columnCount(table) = 2
    /\ table.rows[1].cells[1].content = <<"a", NL>>
    /\ table.rows[1].cells[2].content = <<"a">>
    /\ Len(lines) = 4

\* C26: SeparatorLine.equals(other) is true exactly when the two
\* column-length sequences are equal element by element; visual-width hints
\* never change the result.
C26_EqualsByColumnLengths ==
    pc = "compared" =>
        equalResult
            = (/\ Len(sep.columnLengths) = Len(otherSep.columnLengths)
               /\ \A i \in DOMAIN sep.columnLengths :
                     sep.columnLengths[i] = otherSep.columnLengths[i])

\* two separators with the same column lengths and different hints were
\* compared
C26_Witness ==
    /\ pc = "compared"
    /\ sep.columnLengths = <<1, 12>>
    /\ otherSep.columnLengths = <<1, 12>>
    /\ sep.visualWidths = Null
    /\ otherSep.visualWidths = Some(<<7>>)
    /\ equalResult = TRUE

\* line i of the document lies inside an accepted table region
insideAcceptedTable(i) ==
    \E k \in DOMAIN decorations :
        /\ decorations[k].tableStartLine <= i
        /\ i <= decorations[k].tableEndLine

\* C27: in one pass of the table decoration field over a document, a
\* candidate separator line whose look-ahead fails validation does not
\* advance the skip mark; every separator line that is not inside an
\* accepted table has been tried as a table start; and the accepted table
\* regions are pairwise non-overlapping and in increasing line order.
C27_FailedCandidateKeepsScanner ==
    /\ (pc \in {"scanning", "decorated", "thrown"} /\ lastCall # Null
        /\ lastCall.outcome = "failed")
           => scannedUpTo = lastCall.before
    /\ pc = "decorated" =>
           \A i \in DOMAIN doc.lines :
               (/\ SeparatorLine_tryParse(doc.lines[i]).kind = "return"
                /\ ~insideAcceptedTable(i))
                   => i \in tried
    /\ pc \in {"scanning", "decorated", "thrown"} =>
           /\ \A k \in DOMAIN decorations :
                  /\ decorations[k].tableStartLine
                         <= decorations[k].tableEndLine
                  /\ decorations[k].from < decorations[k].to
           /\ \A j, k \in DOMAIN decorations :
                  j < k => /\ decorations[j].tableEndLine
                                < decorations[k].tableStartLine
                           /\ decorations[j].to < decorations[k].from

\* a pass has ended in which a start line failed whose look-ahead had run
\* into the lines of a table, that table was accepted from its own start
\* line, and a second table was accepted after it
C27_Witness ==
    /\ pc = "decorated"
    /\ Len(decorations) = 2
    /\ \E i \in tried :
          /\ i < decorations[1].tableStartLine
          /\ i + Len(lookAheadForTableParts(
                         accessIterator(linesArray(doc.lines), i,
                                        Len(doc.lines) + 1))) - 1
                 >= decorations[1].tableStartLine

\* the adapter of host state h is mounted
isMounted(h) == ~h.adapter.activeEditor.null

\* C29: the adapter's operations are guarded by the mount state: mount fails
\* with 'Already mounted!' exactly when the adapter is mounted; setContent,
\* setChangeHandler and focus fail with 'Not mounted!' exactly when it is not
\* mounted; a failing call leaves the state unchanged; unmount on an
\* unmounted adapter is a no-op; and after unmount the adapter can be
\* mounted again.
C29_GuardedByMountState ==
    (pc = "adapter" /\ lastCall # Null) =>
        /\ lastCall.op = "mount" =>
              /\ (lastCall.result = Throws(AlreadyMounted))
                     <=> isMounted(lastCall.before)
              /\ lastCall.result.kind = "throw"
                     => lastCall.result = Throws(AlreadyMounted)
              /\ lastCall.result.kind = "return" => isMounted(hostState)
        /\ lastCall.op \in {"setContent", "setChangeHandler", "focus"} =>
              /\ (lastCall.result = Throws(NotMounted))
                     <=> ~isMounted(lastCall.before)
              /\ lastCall.result.kind = "throw"
                     => lastCall.result = Throws(NotMounted)
        /\ lastCall.result.kind = "throw" => hostState = lastCall.before
        /\ lastCall.op = "unmount" =>
              /\ lastCall.result.kind = "return"
              /\ ~isMounted(hostState)
              /\ ~isMounted(lastCall.before) => hostState = lastCall.before

\* an adapter that had been mounted and unmounted was mounted again
C29_Witness ==
    /\ pc = "adapter" /\ lastCall # Null
    /\ lastCall.op = "mount"
    /\ lastCall.result.kind = "return"
    /\ Len(lastCall.before.editors) = 1
    /\ ~isMounted(lastCall.before)
    /\ adapter.activeEditor = Some(2)

\* C30: after any sequence of calls, activeEditor is null if and only if
\* activeController is null, and the adapter's editor is a child of the
\* plugin if and only if the adapter is mounted; no editor is left
\* registered after unmount.
C30_EditorRegisteredIffMounted ==
    pc = "adapter" =>
        /\ adapter.activeEditor.null <=> adapter.activeController.null
        /\ plugin = IF adapter.activeEditor.null THEN <<>>
                    ELSE <<adapter.activeEditor.v>>
        /\ ~adapter.activeEditor.null =>
               /\ adapter.activeEditor.v \in DOMAIN editors
               /\ adapter.activeController.v
                      = editors[adapter.activeEditor.v].controller

\* a mounted adapter was unmounted
C30_Witness ==
    /\ pc = "adapter" /\ lastCall # Null
    /\ lastCall.op = "unmount"
    /\ isMounted(lastCall.before)
    /\ lastCall.before.plugin = <<1>>
    /\ plugin = <<>>
    /\ adapter.activeEditor.null

====
